---- MODULE Spec2Model ----
(***************************************************************************)
(* CryptoRador: market ingestion, rolling windows, stream supervision and  *)
(* the anomaly detectors, modelled as a state machine.                     *)
(*                                                                         *)
(* Three entry scripts exist and each runs as its own process:             *)
(*   run_event_driven.py             WebSocketDataSubscriber +             *)
(*                                   RealtimeMarketAnalyzer                *)
(*   run_subscription_spot_futures.py SubscriptionDataFetcher +            *)
(*                                   SpotFuturesMonitor                    *)
(*   run_perp_exchange_ws_monitor.py PerpWebSocketSubscriber               *)
(* The variable entry says which one a behaviour is a run of.              *)
(*                                                                         *)
(* Numbers.  Prices, volumes and thresholds are floats in the program.     *)
(* Here they are integers in tenths (close 1000 = 100.0, threshold 20 =    *)
(* 2.0) and every comparison is done by cross-multiplication, so that no   *)
(* rounding enters a threshold test.  Times are seconds.                   *)
(***************************************************************************)
EXTENDS Integers, Sequences, FiniteSets, TLC

\* ------------------------------------------------------------------ bounds
\* Candle timestamps the adapter delivers are the minutes 1..MaxTs.
MaxTs == 3
\* The wall clock advances at most MaxTicks times in a behaviour.
MaxTicks == 3
\* Stream tasks of one subscriber alive at the same time.
MaxTasks == 1
\* Cap of a rolling window in the model.  It stands for the buffer_size
\* argument of WebSocketDataSubscriber.subscribe_to_ohlcv (default 10), for
\* settings.LOOKBACK_MINUTES in SubscriptionDataFetcher and for the literal
\* 1000 in PerpWebSocketSubscriber._watch_ohlcv.
WindowCap == 2
MaxSymbolLen == 4

\* ------------------------------------------------------- program constants
MAX_RETRIES == 3
RETRY_DELAY_SECONDS == 2
cooldown_seconds == 3600
alert_cooldown == 300
perp_max_retries == 3
sf_max_retries == 3

\* A missing time (a key absent from a dict of times).
None == 0 - 1

VARIABLES
    entry,      \* the entry script this behaviour runs
    settings,   \* src/config/settings.py as read at start-up
    now,        \* wall clock, seconds
    ticks,      \* number of clock advances so far
    ws,         \* WebSocketDataSubscriber
    tasks,      \* its _handle_ohlcv_subscription tasks
    analyzer,   \* RealtimeMarketAnalyzer
    sdf,        \* SubscriptionDataFetcher and its watch_ohlcv_handler task
    perp,       \* PerpWebSocketSubscriber and its _watch_ohlcv task
    monitor,    \* SubscriptionSpotFuturesMonitor and its SpotFuturesMonitor
    feed,       \* scripted bars still to be delivered (scenario runs only)
    obs,        \* what the last step did
    hist,       \* history: real last emission per key, symbols ever invalid
    listing,    \* the market the run follows, as the exchange lists it
    sweep,      \* AsyncCryptoRador: what its next fetch returns
    cross,      \* PerpExchangeMonitor and the market data of its next pass
    snapshot,   \* the frames the last get_market_data handed out
    closer,     \* the stop() in progress and the adapter's close()
    requests,   \* one-shot adapter requests: the semaphore and who is in flight
    adapters,   \* the adapter instances the event-driven entry has created
    scheduler   \* the polling entry's TaskScheduler and its two threads

vars == <<entry, settings, now, ticks, ws, tasks, analyzer, sdf, perp, monitor,
          feed, obs, hist, listing, sweep, cross, snapshot, closer, requests, adapters,
    scheduler>>

\* What the steps of the stream tasks and of their owners leave alone.
Aside == <<listing, sweep, cross, snapshot, closer, requests, adapters,
    scheduler>>

\* ------------------------------------------------------------------ inputs
EXCHANGE == "binance"
SYMBOL == "BTC/USDT"
TIMEFRAME == "1m"

\* An OHLCV bar as far as any detector reads it: open, high and low are
\* carried along by the program and never read.
Bar(ts, close, volume) == [timestamp |-> ts, close |-> close, volume |-> volume]

\* Payloads the adapter delivers: a quiet candle and a spike candle.
Payloads == { [close |-> 1000, volume |-> 100], [close |-> 1030, volume |-> 600] }

Bars == { Bar(ts, p.close, p.volume) : ts \in 1..MaxTs, p \in Payloads }

\* A symbol is the sequence of its parts: "BTC/USDT:USDT" is
\* <<"BTC", "/", "USDT", ":", "USDT">>, so that `marker in symbol` is Contains.
BTC_USDT == <<"BTC", "/", "USDT">>
BTC_USDT_PERP == <<"BTC", "/", "USDT", ":", "USDT">>
BTC_USDT_DATED == <<"BTC", "/", "USDT", ":", "230628">>
USDT_USDC == <<"USDT", "/", "USDC">>

\* An entry of exchange.markets: the symbol and the two flags the program
\* reads from it.
Market(symbol, future, swap) == [symbol |-> symbol, future |-> future, swap |-> swap]

Markets == { Market(BTC_USDT, FALSE, FALSE),
             Market(BTC_USDT_PERP, FALSE, TRUE),
             Market(BTC_USDT_DATED, TRUE, FALSE),
             Market(USDT_USDC, FALSE, FALSE) }

\* Error messages of the adapter, as lower-cased word sequences.
Messages == {
    <<"invalid", "symbol">>,
    <<"symbol", "not", "found">>,
    <<"market", "does", "not", "exist">>,
    <<"invalid", "symbol", "status">>,
    <<"unknown", "symbol">>,
    <<"unknown", "channel">>,
    <<"rate", "limit">> }

\* ----------------------------------------------------------------- helpers
\* `kw in msg` for strings, at word granularity.
Contains(msg, kw) ==
    \E i \in 1..Len(msg) :
        /\ i + Len(kw) - 1 <= Len(msg)
        /\ SubSeq(msg, i, i + Len(kw) - 1) = kw

Last(s) == s[Len(s)]

\* s[-n:] of Python: the last n elements, and all of s when n = 0.
Tail_n(s, n) ==
    IF n = 0 \/ Len(s) <= n THEN s ELSE SubSeq(s, Len(s) - n + 1, Len(s))

RemoveAt(s, i) == SubSeq(s, 1, i - 1) \o SubSeq(s, i + 1, Len(s))

RECURSIVE SumVolume(_)
SumVolume(s) == IF s = <<>> THEN 0 ELSE s[1].volume + SumVolume(Tail(s))

\* Stable insertion of bar b into the ascending sequence s.
RECURSIVE InsertSorted(_, _)
InsertSorted(s, b) ==
    IF s = <<>> THEN <<b>>
    ELSE IF Last(s).timestamp <= b.timestamp THEN Append(s, b)
    ELSE Append(InsertSorted(SubSeq(s, 1, Len(s) - 1), b), Last(s))

\* DataFrame.sort_values('timestamp').
RECURSIVE sort_values(_)
sort_values(s) ==
    IF s = <<>> THEN <<>>
    ELSE InsertSorted(sort_values(SubSeq(s, 1, Len(s) - 1)), Last(s))

Abs(x) == IF x < 0 THEN -x ELSE x

\* ------------------------------------------------ symbols and market kinds
MARKET_TYPES == {"spot", "future"}

\* The markers whose presence in a symbol makes get_active_markets call the
\* market a future ('_usd_' and '-usd-' are looked up in symbol.lower()).
FutureMarkers == {
    <<"PERP">>, <<":", "USDT">>, <<"_", "PERP">>, <<"/", "USDT", "-", "PERP">>,
    <<"-", "SWAP">>, <<"-", "FUTURES">>, <<"_", "USD", "_">>, <<"-", "USD", "-">>,
    <<"/", "USD", ":">>, <<"/", "USDT", ":">> }

is_future(market) ==
    \/ market.future
    \/ market.swap
    \/ \E marker \in FutureMarkers : Contains(market.symbol, marker)

current_type(market) == IF is_future(market) THEN "future" ELSE "spot"

\* The number of leading digits of a part of a symbol.
DigitRun(part) == IF part = "230628" THEN 6 ELSE 0

\* date_patterns of get_perp_contracts: a run of four, six or eight digits,
\* or two runs of at least two digits joined by a hyphen.
is_delivery(symbol) ==
    \E i \in 1..Len(symbol) :
        \/ DigitRun(symbol[i]) >= 4
        \/ /\ DigitRun(symbol[i]) >= 2
           /\ i + 2 <= Len(symbol)
           /\ symbol[i + 1] = "-"
           /\ DigitRun(symbol[i + 2]) >= 2

stablecoins == {"USDT", "USDC", "DAI", "BUSD", "UST", "TUSD", "USDP", "USDK", "PAX"}

\* symbol.replace('-', '/').split('/'): the positions of the separators.
Separators(symbol) == { i \in 1..Len(symbol) : symbol[i] \in {"/", "-"} }

\* MarketAnalyzer.is_stablecoin_pair: parts[0] and parts[1] of the split both
\* hold a stablecoin.
is_stablecoin_pair(symbol) ==
    LET seps == Separators(symbol)
    IN  IF seps = {} THEN FALSE
        ELSE LET first == CHOOSE i \in seps : \A j \in seps : i <= j
                 rest == { j \in seps : j > first }
                 second == IF rest = {} THEN Len(symbol) + 1
                           ELSE CHOOSE i \in rest : \A j \in rest : i <= j
                 base == SubSeq(symbol, 1, first - 1)
                 quote == SubSeq(symbol, first + 1, second - 1)
             IN  /\ \E k \in 1..Len(base) : base[k] \in stablecoins
                 /\ \E k \in 1..Len(quote) : quote[k] \in stablecoins

\* ------------------------------------------------- WebSocketDataSubscriber
\* subscription_key = f"{symbol}:{timeframe}"
SubscriptionKey(symbol, timeframe) == <<symbol, timeframe>>
KEY == SubscriptionKey(SYMBOL, TIMEFRAME)

\* One exchange is configured, so each per-exchange dict of the class is
\* its entry for EXCHANGE; data_buffers is <<>> while the key is absent and
\* <<buffer>> once subscribe_to_ohlcv has created it.
WsInitial == [
    exchanges |-> {},
    active_subscriptions |-> {},
    subscription_callbacks |-> {},
    data_buffers |-> <<>>,
    invalid_symbols |-> {},
    is_running |-> FALSE ]

\* The append-or-replace of a delivered candle into the buffer.
WsRecordBarAlwaysAppend(buffer, candle, buffer_size) ==
    Tail_n(Append(buffer, candle), buffer_size)

WsRecordBar(buffer, candle, buffer_size) ==
    IF buffer # <<>> /\ Last(buffer).timestamp = candle.timestamp
    THEN [buffer EXCEPT ![Len(buffer)] = candle]
    ELSE Tail_n(Append(buffer, candle), buffer_size)

\* The classification of a ccxt.BaseError by its message.
WsPermanentKeywords == {
    <<"invalid", "symbol">>,
    <<"symbol", "not", "found">>,
    <<"does", "not", "exist">>,
    <<"invalid", "symbol", "status">> }

WsIsPermanentNever(msg) == FALSE

WsIsPermanent(msg) == \E kw \in WsPermanentKeywords : Contains(msg, kw)

\* retry_time = settings.RETRY_DELAY_SECONDS * 2 ** (retries - 1)
WsRetryTime(retries) == settings.RETRY_DELAY_SECONDS * 2 ^ (retries - 1)

\* The while condition of _handle_ohlcv_subscription.
WsLoopCondition(w) ==
    /\ KEY \in w.active_subscriptions
    /\ EXCHANGE \in w.exchanges
    /\ w.is_running

\* ------------------------------------------------- RealtimeMarketAnalyzer
CooldownKey(exchange_id, symbol) == <<exchange_id, symbol>>
VKEY == CooldownKey(EXCHANGE, SYMBOL)

AnalyzerInitial == [
    alert_cooldowns |-> None,       \* alert_cooldowns.get(VKEY)
    recent_anomalies |-> None ]     \* detected_at of recent_anomalies.get(VKEY)

\* The cooldown test: TRUE when the key is still cooling down.
InCooldownNever(last_alert_time, t) == FALSE

InCooldown(last_alert_time, t) ==
    /\ last_alert_time # None
    /\ t - last_alert_time < cooldown_seconds

\* The reference taken from the oldest bar whatever the lookback.
reference_price_oldest(kl, lookback_periods) == kl[1].close

reference_price(kl, lookback_periods) ==
    IF Len(kl) >= lookback_periods
    THEN kl[Len(kl) - lookback_periods + 1].close
    ELSE kl[1].close

\* The price test with a strict comparison.
is_abnormal_price_strict(latest, ref, threshold) ==
    (latest - ref) * 1000 > threshold * ref

\* price_change_percent >= price_increase_threshold, for a positive
\* reference price (tenths on both sides).
is_abnormal_price(latest, ref, threshold) ==
    (latest - ref) * 1000 >= threshold * ref

\* volume_change_ratio >= volume_spike_threshold, where the ratio is
\* latest / mean(previous) and 1.0 when that mean is not positive.
is_abnormal_volume(latest, previous, threshold) ==
    IF SumVolume(previous) > 0
    THEN latest * Len(previous) * 10 >= threshold * SumVolume(previous)
    ELSE 10 >= threshold

\* The anomaly test of on_new_kline on a frame of at least two bars.  The
\* reported figures are in hundredths, rounded down.
DetectAnomaly(kline_data, st) ==
    LET kl == sort_values(kline_data)
        latest == Last(kl)
        ref == reference_price(kl, st.LOOKBACK_MINUTES)
        previous == SubSeq(kl, 1, Len(kl) - 1)
        avg_pos == SumVolume(previous) > 0
    IN  [ abnormal |->
              /\ is_abnormal_price(latest.close, ref, st.MIN_PRICE_INCREASE_PERCENT)
              /\ is_abnormal_volume(latest.volume, previous, st.VOLUME_SPIKE_THRESHOLD),
          price_change_percent |-> ((latest.close - ref) * 10000) \div ref,
          volume_ratio |->
              IF avg_pos
              THEN (latest.volume * Len(previous) * 100) \div SumVolume(previous)
              ELSE 100 ]

\* on_new_kline up to the await of calculate_price_percentile: <<>> for
\* None, else the anomaly it has built.
OnNewKline(kline_data, an, t, st) ==
    IF Len(kline_data) < 2 THEN <<>>
    ELSE IF InCooldown(an.alert_cooldowns, t) THEN <<>>
    ELSE LET d == DetectAnomaly(kline_data, st)
         IN  IF d.abnormal
             THEN << [ price_change_percent |-> d.price_change_percent,
                       volume_ratio |-> d.volume_ratio,
                       detected_at |-> t ] >>
             ELSE <<>>

\* A purge that drops a cooldown entry as soon as it has any age.
ClearOldEarly(an, t) ==
    [ recent_anomalies |->
          IF an.recent_anomalies # None /\ t - an.recent_anomalies > 60 * 60
          THEN None ELSE an.recent_anomalies,
      alert_cooldowns |->
          IF an.alert_cooldowns # None /\ t - an.alert_cooldowns > 0
          THEN None ELSE an.alert_cooldowns ]

\* clear_old_anomalies(max_age_minutes = 60) on the analyzer state.
ClearOld(an, t) ==
    [ recent_anomalies |->
          IF an.recent_anomalies # None /\ t - an.recent_anomalies > 60 * 60
          THEN None ELSE an.recent_anomalies,
      alert_cooldowns |->
          IF an.alert_cooldowns # None /\ t - an.alert_cooldowns > cooldown_seconds
          THEN None ELSE an.alert_cooldowns ]

\* ------------------------------------------------------------ observation
\* What a step did: the alert it sent, what the basis detector returned
\* before the cooldown filter (detected), how the task left its loop, the error
\* message it handled, the candle it recorded, whether that candle is the one
\* the previous step recorded (again) and whether the oldest row left the
\* window (evicted).
Obs(op) == [ op |-> op, alert |-> <<>>, detected |-> <<>>, exit |-> "",
             msg |-> <<>>, candle |-> <<>>, again |-> FALSE, evicted |-> FALSE,
             sleep_s |-> 0, was |-> 0, notifier |-> "" ]

\* The candle went in at the end and the first row of the window went out.
Evicted(w, w2, candle) ==
    /\ w # <<>>
    /\ Last(w).timestamp # candle.timestamp
    /\ Len(w2) = Len(w)
    /\ w2 = Append(Tail(w), candle)

ObsBar(op, w, w2, candle) ==
    [Obs(op) EXCEPT !.candle = <<candle>>,
                    !.again = (obs.candle = <<candle>>),
                    !.evicted = Evicted(w, w2, candle)]

HistInitial == [ last_emit |-> None, ever_invalid |-> {} ]

\* What notifier.send_notification does with the alerts it is handed: it
\* returns True, returns False, or raises.
NotifierOutcomes == {"sent", "returned_false", "raised"}

NewTask == [ pc |-> "start", retries |-> 0, pending |-> <<>> ]

\* The anomaly reaches the notifier: on_new_kline records it and returns it,
\* on_kline_update sends it.
\* The notifier is called once, after the cooldown entry is written, and
\* whatever it does is logged.
\* The cooldown entry is written only when the notifier returns True.
EmitVolatilityCooldownOnSuccess(anomaly, o, h) ==
    \E outcome \in NotifierOutcomes :
        /\ analyzer' = [ recent_anomalies |-> anomaly.detected_at,
                         alert_cooldowns |-> IF outcome = "sent" THEN now
                                             ELSE analyzer.alert_cooldowns ]
        /\ hist' = [h EXCEPT !.last_emit = now]
        /\ obs' = [o EXCEPT !.notifier = outcome,
                            !.alert = << [ kind |-> "volatility",
                                           key |-> VKEY,
                                           at |-> now,
                                           prev |-> hist.last_emit,
                                           price_change_percent |-> anomaly.price_change_percent,
                                           volume_ratio |-> anomaly.volume_ratio ] >>]

EmitVolatility(anomaly, o, h) ==
    \E outcome \in NotifierOutcomes :
        /\ analyzer' = [ recent_anomalies |-> anomaly.detected_at,
                         alert_cooldowns |-> now ]
        /\ hist' = [h EXCEPT !.last_emit = now]
        /\ obs' = [o EXCEPT !.notifier = outcome,
                            !.alert = << [ kind |-> "volatility",
                                           key |-> VKEY,
                                           at |-> now,
                                           prev |-> hist.last_emit,
                                           price_change_percent |-> anomaly.price_change_percent,
                                           volume_ratio |-> anomaly.volume_ratio ] >>]

\* The loop goes on with the retry counter as it was.
TasksContinueKeepingRetries(i, w) ==
    IF WsLoopCondition(w)
    THEN [tasks EXCEPT ![i].pc = "watch", ![i].pending = <<>>]
    ELSE RemoveAt(tasks, i)

\* The end of one loop iteration of task i under subscriber state w: the
\* while condition is evaluated again and the task either awaits the next
\* candle or leaves the loop.
TasksContinue(i, w) ==
    IF WsLoopCondition(w)
    THEN [tasks EXCEPT ![i] = [pc |-> "watch", retries |-> 0, pending |-> <<>>]]
    ELSE RemoveAt(tasks, i)

ExitContinue(w) == IF WsLoopCondition(w) THEN "" ELSE "loop_condition"

Others_ws == <<sdf, perp, monitor, feed, entry, settings, now, ticks, Aside>>

\* ---- the stream task: _handle_ohlcv_subscription

\* A created task is scheduled for the first time.
WsTaskStart(i) ==
    /\ entry = "event_driven"
    /\ tasks[i].pc = "start"
    /\ tasks' = TasksContinue(i, ws)
    /\ obs' = [Obs("task_start") EXCEPT !.exit = ExitContinue(ws)]
    /\ UNCHANGED <<ws, analyzer, hist>>
    /\ UNCHANGED Others_ws

\* watchOHLCV returns a candle: lines 224-264.
WsBarStep(i, candle) ==
    /\ tasks[i].pc = "watch"
    /\ IF ws.data_buffers = <<>>
       THEN \* KeyError on data_buffers[exchange_id][subscription_key]:
            \* the except Exception branch, lines 313-318
            /\ ws' = [ws EXCEPT !.active_subscriptions = @ \ {KEY}]
            /\ tasks' = RemoveAt(tasks, i)
            /\ obs' = [Obs("bar") EXCEPT !.exit = "unexpected"]
            /\ UNCHANGED <<analyzer, hist>>
       ELSE LET buffer == WsRecordBar(ws.data_buffers[1], candle, settings.buffer_size)
                w == [ws EXCEPT !.data_buffers = <<buffer>>]
                anomaly == IF KEY \in ws.subscription_callbacks
                           THEN OnNewKline(buffer, analyzer, now, settings)
                           ELSE <<>>
                ob == ObsBar("bar", ws.data_buffers[1], buffer, candle)
                o == [ob EXCEPT !.exit = ExitContinue(w),
                                !.was = tasks[i].retries]
                h == hist
            IN  /\ ws' = w
                /\ IF anomaly = <<>>
                   THEN /\ tasks' = TasksContinue(i, w)
                        /\ obs' = o
                        /\ hist' = h
                        /\ UNCHANGED analyzer
                   ELSE \/ \* the daily history is cached: no suspension
                           /\ tasks' = TasksContinue(i, w)
                           /\ EmitVolatility(anomaly[1], o, h)
                        \/ \* the daily history is fetched: the task waits
                           /\ tasks' = [tasks EXCEPT ![i] =
                                  [pc |-> "percentile", retries |-> 0, pending |-> anomaly]]
                           /\ obs' = ob
                           /\ hist' = h
                           /\ UNCHANGED analyzer

WsBar(i, candle) ==
    /\ entry = "event_driven"
    /\ WsBarStep(i, candle)
    /\ UNCHANGED Others_ws

\* calculate_price_percentile returns (with data or without): lines 249-268,
\* then on_kline_update notifies and the loop goes on.
WsPercentileDone(i) ==
    /\ entry = "event_driven"
    /\ tasks[i].pc = "percentile"
    /\ tasks' = TasksContinue(i, ws)
    /\ EmitVolatility(tasks[i].pending[1],
                      [Obs("percentile_done") EXCEPT !.exit = ExitContinue(ws)],
                      hist)
    /\ UNCHANGED ws
    /\ UNCHANGED Others_ws

\* watchOHLCV returns nothing usable (`if ohlcv and len(ohlcv) > 0` fails).
WsEmpty(i) ==
    /\ entry = "event_driven"
    /\ tasks[i].pc = "watch"
    /\ tasks' = TasksContinue(i, ws)
    /\ obs' = [Obs("empty") EXCEPT !.exit = ExitContinue(ws),
                                   !.was = tasks[i].retries]
    /\ UNCHANGED <<ws, analyzer, hist>>
    /\ UNCHANGED Others_ws

\* The retry bookkeeping shared by the two recoverable branches; mark says
\* whether giving up adds the symbol to the invalid set.
WsRetry(i, op, msg, mark) ==
    LET retries == tasks[i].retries + 1
    IN  IF retries > settings.MAX_RETRIES
        THEN /\ ws' = [ws EXCEPT
                    !.invalid_symbols = IF mark THEN @ \cup {SYMBOL} ELSE @,
                    !.active_subscriptions = @ \ {KEY}]
             /\ hist' = [hist EXCEPT !.ever_invalid =
                            IF mark THEN @ \cup {SYMBOL} ELSE @]
             /\ tasks' = RemoveAt(tasks, i)
             /\ obs' = [Obs(op) EXCEPT !.exit = "max_retries", !.msg = msg,
                                       !.was = tasks[i].retries]
        ELSE /\ tasks' = [tasks EXCEPT ![i] =
                    [pc |-> "sleep", retries |-> retries, pending |-> <<>>]]
             /\ obs' = [Obs(op) EXCEPT !.msg = msg,
                                       !.sleep_s = WsRetryTime(retries),
                                       !.was = tasks[i].retries]
             /\ UNCHANGED <<ws, hist>>

\* watchOHLCV raises ccxt.NetworkError: lines 266-282.
WsNetworkError(i) ==
    /\ entry = "event_driven"
    /\ tasks[i].pc = "watch"
    /\ WsRetry(i, "network_error", <<"network">>, TRUE)
    /\ UNCHANGED analyzer
    /\ UNCHANGED Others_ws

\* watchOHLCV raises another ccxt.BaseError with message msg: lines 284-311.
WsBaseError(i, msg) ==
    /\ entry = "event_driven"
    /\ tasks[i].pc = "watch"
    /\ IF WsIsPermanent(msg)
       THEN /\ ws' = [ws EXCEPT !.invalid_symbols = @ \cup {SYMBOL},
                                !.active_subscriptions = @ \ {KEY}]
            /\ hist' = [hist EXCEPT !.ever_invalid = @ \cup {SYMBOL}]
            /\ tasks' = RemoveAt(tasks, i)
            /\ obs' = [Obs("base_error") EXCEPT !.exit = "permanent", !.msg = msg]
       ELSE WsRetry(i, "base_error", msg, FALSE)
    /\ UNCHANGED analyzer
    /\ UNCHANGED Others_ws

\* watchOHLCV raises anything else: lines 313-318.
WsUnexpected(i) ==
    /\ entry = "event_driven"
    /\ tasks[i].pc = "watch"
    /\ ws' = [ws EXCEPT !.active_subscriptions = @ \ {KEY}]
    /\ tasks' = RemoveAt(tasks, i)
    /\ obs' = [Obs("unexpected") EXCEPT !.exit = "unexpected"]
    /\ UNCHANGED <<analyzer, hist>>
    /\ UNCHANGED Others_ws

\* watchOHLCV returns a last row of fewer than six fields: ohlcv[-1][5]
\* (lines 232-237) raises IndexError, handled by lines 313-318.
WsShortBar(i) ==
    /\ entry = "event_driven"
    /\ tasks[i].pc = "watch"
    /\ ws' = [ws EXCEPT !.active_subscriptions = @ \ {KEY}]
    /\ tasks' = RemoveAt(tasks, i)
    /\ obs' = [Obs("short_bar") EXCEPT !.exit = "unexpected",
                                       !.was = tasks[i].retries]
    /\ UNCHANGED <<analyzer, hist>>
    /\ UNCHANGED Others_ws

\* asyncio.sleep(retry_time) is over.
WsSleepDone(i) ==
    /\ entry = "event_driven"
    /\ tasks[i].pc = "sleep"
    /\ tasks' = IF WsLoopCondition(ws)
                THEN [tasks EXCEPT ![i].pc = "watch"]
                ELSE RemoveAt(tasks, i)
    /\ obs' = [Obs("sleep_done") EXCEPT !.exit = ExitContinue(ws)]
    /\ UNCHANGED <<ws, analyzer, hist>>
    /\ UNCHANGED Others_ws

\* ---- the public methods of WebSocketDataSubscriber, called by its owner

\* initialize_exchanges: every per-exchange dict is created anew, then the
\* connection is made; ok says whether load_markets succeeded.
InitializeExchanges(w, ok) ==
    [ w EXCEPT !.exchanges = IF ok THEN {EXCHANGE} ELSE {},
               !.active_subscriptions = {},
               !.subscription_callbacks = {},
               !.data_buffers = <<>>,
               !.invalid_symbols = {} ]

\* EventDrivenCryptoRador.setup
Setup(ok) ==
    /\ entry = "event_driven"
    /\ ws' = InitializeExchanges(ws, ok)
    /\ obs' = Obs("setup")
    /\ UNCHANGED <<tasks, analyzer, hist>>
    /\ UNCHANGED Others_ws

\* start()
Start(ok) ==
    /\ entry = "event_driven"
    /\ ~ws.is_running
    /\ ws' = InitializeExchanges([ws EXCEPT !.is_running = TRUE], ok)
    /\ obs' = Obs("start")
    /\ UNCHANGED <<tasks, analyzer, hist>>
    /\ UNCHANGED Others_ws

\* stop()
Stop ==
    /\ entry = "event_driven"
    /\ ws.is_running
    /\ ws' = [ws EXCEPT !.is_running = FALSE, !.active_subscriptions = {}]
    /\ obs' = Obs("stop")
    /\ UNCHANGED <<tasks, analyzer, hist>>
    /\ UNCHANGED Others_ws

\* subscribe_to_ohlcv(exchange_id, symbol, callback) on subscriber state w.
\* room is the number of tasks the run may hold.
SubscribeWithin(op, room) ==
    IF KEY \in ws.active_subscriptions
    THEN /\ ws' = [ws EXCEPT !.subscription_callbacks = @ \cup {KEY}]
         /\ obs' = Obs(op)
         /\ UNCHANGED tasks
    ELSE /\ Len(tasks) < room
         /\ ws' = [ws EXCEPT
                !.data_buffers = IF @ = <<>> THEN << <<>> >> ELSE @,
                !.active_subscriptions = @ \cup {KEY},
                !.subscription_callbacks = @ \cup {KEY}]
         /\ tasks' = Append(tasks, NewTask)
         /\ obs' = Obs(op)

SubscribeEffect(op) == SubscribeWithin(op, MaxTasks)

SubscribeToOhlcv ==
    /\ entry = "event_driven"
    /\ EXCHANGE \in ws.exchanges
    /\ SubscribeEffect("subscribe_to_ohlcv")
    /\ UNCHANGED <<analyzer, hist>>
    /\ UNCHANGED Others_ws

\* subscribe_to_ohlcv in a run that may hold one task more: the call made
\* again while the task of an earlier call is still alive.
SubscribeToOhlcvAgain ==
    /\ entry = "event_driven"
    /\ EXCHANGE \in ws.exchanges
    /\ SubscribeWithin("subscribe_to_ohlcv", MaxTasks + 1)
    /\ UNCHANGED <<analyzer, hist>>
    /\ UNCHANGED Others_ws

\* unsubscribe_from_ohlcv(exchange_id, symbol)
UnsubscribeFromOhlcv ==
    /\ entry = "event_driven"
    /\ KEY \in ws.active_subscriptions
    /\ ws' = [ws EXCEPT !.active_subscriptions = @ \ {KEY},
                        !.subscription_callbacks = @ \ {KEY}]
    /\ obs' = Obs("unsubscribe_from_ohlcv")
    /\ UNCHANGED <<tasks, analyzer, hist>>
    /\ UNCHANGED Others_ws

\* get_active_markets: the symbols of the reloaded market list that are
\* active and not known invalid; listed is what the exchange lists.  The
\* market is kept when its kind is one of the requested market types.
GetActiveMarkets(listed, invalid) == listed \ invalid

\* subscribe_all_markets(market_types, callback)
SubscribeAllMarkets ==
    /\ entry = "event_driven"
    /\ EXCHANGE \in ws.exchanges
    /\ SYMBOL \in GetActiveMarkets({SYMBOL}, ws.invalid_symbols)
    /\ current_type(listing) \in MARKET_TYPES
    /\ SubscribeEffect("subscribe_all_markets")
    /\ UNCHANGED <<analyzer, hist>>
    /\ UNCHANGED Others_ws

\* ---- periodic_maintenance: one pass
Maintenance ==
    /\ entry = "event_driven"
    /\ analyzer' = ClearOld(analyzer, now)
    /\ analyzer' # analyzer
    /\ obs' = Obs("maintenance")
    /\ UNCHANGED <<ws, tasks, hist>>
    /\ UNCHANGED Others_ws

\* ------------------------------------------------- SubscriptionDataFetcher
\* sub_key = f"{exchange_id}:{symbol}:{timeframe}"
SubKey(exchange_id, symbol, timeframe) == <<exchange_id, symbol, timeframe>>
SUB_KEY == SubKey(EXCHANGE, SYMBOL, TIMEFRAME)

\* pc is the position of the one watch_ohlcv_handler task: "none" before it
\* is created, "watch" at the await of watch_ohlcv, "sleep" in asyncio.sleep,
\* "done" after its finally block.
SfInitial == [
    running |-> FALSE,
    exchanges |-> {},
    subscriptions |-> {},
    ohlcv_data |-> <<>>,
    pc |-> "none",
    retry_count |-> 0,
    sleep_s |-> 0 ]

\* The update of the stored frame with a validated candle: rows of the same
\* timestamp are overwritten in place, otherwise the candle is appended and
\* the frame is cut to its last max_rows rows.
SfRecordBar(df, candle, max_rows) ==
    IF \E k \in 1..Len(df) : df[k].timestamp = candle.timestamp
    THEN [k \in 1..Len(df) |->
             IF df[k].timestamp = candle.timestamp THEN candle ELSE df[k]]
    ELSE IF Len(df) + 1 > max_rows
         THEN Tail_n(Append(df, candle), max_rows)
         ELSE Append(df, candle)

\* The sleep after the retry_count-th consecutive error.
SfRetrySleep(retry_count) == IF retry_count >= sf_max_retries THEN 30 ELSE 5

Others_sf == <<ws, tasks, analyzer, perp, monitor, feed, entry, settings, now, ticks, hist, Aside>>

\* start(): the exchange is connected, the symbol is subscribed and its
\* handler task is created and runs up to its first await.
SfStart ==
    /\ entry = "spot_futures"
    /\ sdf.pc = "none"
    /\ sdf' = [sdf EXCEPT !.running = TRUE,
                          !.exchanges = {EXCHANGE},
                          !.subscriptions = @ \cup {SUB_KEY},
                          !.ohlcv_data = IF @ = <<>> THEN << <<>> >> ELSE @,
                          !.pc = "watch"]
    /\ obs' = Obs("sf_start")
    /\ UNCHANGED Others_sf

\* The task leaves `while self.running` when the flag is down; its finally
\* block removes the subscription.
SfLoop(s) ==
    IF s.running
    THEN [s EXCEPT !.pc = "watch", !.sleep_s = 0]
    ELSE [s EXCEPT !.pc = "done", !.sleep_s = 0, !.subscriptions = @ \ {SUB_KEY}]

\* watch_ohlcv returns a valid candle: lines 243-416.
SfBar(candle) ==
    /\ entry = "spot_futures"
    /\ sdf.pc = "watch"
    /\ LET df == IF sdf.ohlcv_data = <<>> THEN <<>> ELSE sdf.ohlcv_data[1]
           df2 == SfRecordBar(df, candle, settings.LOOKBACK_MINUTES)
       IN  /\ sdf' = SfLoop([sdf EXCEPT !.retry_count = 0, !.ohlcv_data = <<df2>>])
           /\ obs' = ObsBar("sf_bar", df, df2, candle)
    /\ UNCHANGED Others_sf

\* watch_ohlcv returns an empty or malformed update: lines 249-305.
SfInvalidBar ==
    /\ entry = "spot_futures"
    /\ sdf.pc = "watch"
    /\ sdf' = [sdf EXCEPT !.retry_count = 0, !.pc = "sleep", !.sleep_s = 1]
    /\ obs' = Obs("sf_invalid_bar")
    /\ UNCHANGED Others_sf

\* watch_ohlcv raises: lines 418-429.
SfError ==
    /\ entry = "spot_futures"
    /\ sdf.pc = "watch"
    /\ LET retry_count == sdf.retry_count + 1
       IN  sdf' = [sdf EXCEPT !.retry_count = retry_count,
                              !.pc = "sleep",
                              !.sleep_s = SfRetrySleep(retry_count)]
    /\ obs' = Obs("sf_error")
    /\ UNCHANGED Others_sf

\* asyncio.sleep returns; after the long pause the counter starts again.
SfSleepDone ==
    /\ entry = "spot_futures"
    /\ sdf.pc = "sleep"
    /\ sdf' = SfLoop([sdf EXCEPT !.retry_count =
                        IF @ >= sf_max_retries THEN 0 ELSE @])
    /\ obs' = [Obs("sf_sleep_done") EXCEPT !.exit =
                  IF sdf.running THEN "" ELSE "loop_condition"]
    /\ UNCHANGED Others_sf

\* stop()
SfStop ==
    /\ entry = "spot_futures"
    /\ sdf.running
    /\ sdf' = [sdf EXCEPT !.running = FALSE, !.exchanges = {}]
    /\ obs' = Obs("sf_stop")
    /\ UNCHANGED Others_sf

SfNext ==
    \/ SfStart
    \/ \E candle \in Bars : SfBar(candle)
    \/ SfInvalidBar
    \/ SfError
    \/ SfSleepDone
    \/ SfStop

\* ------------------------------------------------- PerpWebSocketSubscriber
\* pc is the position of the one _watch_ohlcv task, as for the handler
\* above; "done" is the return of the coroutine.
PerpInitial == [
    stop_event |-> FALSE,
    exchanges |-> {},
    active_subscriptions |-> {},
    market_data |-> <<>>,
    pc |-> "none",
    retry_count |-> 0,
    sleep_s |-> 0 ]

\* DataFrame.tail(n)
DfTail(df, n) == IF n = 0 THEN <<>> ELSE Tail_n(df, n)

\* The update of market_data under data_lock; cap stands for the literal 1000.
PerpRecordBar(df, new_row, cap) ==
    LET d == IF df # <<>> /\ Last(df).timestamp = new_row.timestamp
             THEN [df EXCEPT ![Len(df)] = new_row]
             ELSE Append(df, new_row)
    IN  IF Len(d) > cap THEN DfTail(d, cap) ELSE d

\* The while condition of _watch_ohlcv.
PerpLoopCondition(p) == ~p.stop_event /\ p.retry_count < perp_max_retries

PerpLoop(p) ==
    IF PerpLoopCondition(p)
    THEN [p EXCEPT !.pc = "watch", !.sleep_s = 0]
    ELSE [p EXCEPT !.pc = "done", !.sleep_s = 0]

Others_perp == <<ws, tasks, analyzer, sdf, monitor, feed, entry, settings, now, ticks, hist, Aside>>

\* start() followed by subscribe_to_ohlcv: the task is created and runs up
\* to its first await.
PerpSubscribe ==
    /\ entry = "perp_ws"
    /\ perp.pc = "none"
    /\ perp' = [perp EXCEPT !.exchanges = {EXCHANGE},
                            !.active_subscriptions = @ \cup {SYMBOL},
                            !.pc = "watch"]
    /\ obs' = Obs("perp_subscribe")
    /\ UNCHANGED Others_perp

\* watchOHLCV and watchTicker return: lines 412-475.
PerpBar(new_row) ==
    /\ entry = "perp_ws"
    /\ perp.pc = "watch"
    /\ LET df == IF perp.market_data = <<>> THEN <<>> ELSE perp.market_data[1]
           df2 == PerpRecordBar(df, new_row, WindowCap)
       IN  /\ perp' = PerpLoop([perp EXCEPT !.retry_count = 0, !.market_data = <<df2>>])
           /\ obs' = ObsBar("perp_bar", df, df2, new_row)
    /\ UNCHANGED Others_perp

\* watchOHLCV or watchTicker returns nothing: sleep one second, continue.
PerpEmpty ==
    /\ entry = "perp_ws"
    /\ perp.pc = "watch"
    /\ perp' = [perp EXCEPT !.pc = "sleep", !.sleep_s = 1]
    /\ obs' = Obs("perp_empty")
    /\ UNCHANGED Others_perp

\* Anything raises inside the loop: lines 477-484.
PerpError ==
    /\ entry = "perp_ws"
    /\ perp.pc = "watch"
    /\ LET retry_count == perp.retry_count + 1
       IN  IF retry_count < perp_max_retries
           THEN /\ perp' = [perp EXCEPT !.retry_count = retry_count,
                                        !.pc = "sleep",
                                        !.sleep_s = 2 ^ retry_count]
                /\ obs' = Obs("perp_error")
           ELSE /\ perp' = [perp EXCEPT !.retry_count = retry_count,
                                        !.pc = "done"]
                /\ obs' = [Obs("perp_error") EXCEPT !.exit = "max_retries"]
    /\ UNCHANGED Others_perp

\* asyncio.sleep returns.
PerpSleepDone ==
    /\ entry = "perp_ws"
    /\ perp.pc = "sleep"
    /\ perp' = PerpLoop(perp)
    /\ obs' = [Obs("perp_sleep_done") EXCEPT !.exit =
                  IF PerpLoopCondition(perp) THEN "" ELSE "loop_condition"]
    /\ UNCHANGED Others_perp

\* stop(): the event is set and the subscriptions are cleared.
PerpStop ==
    /\ entry = "perp_ws"
    /\ perp.pc # "none"
    /\ ~perp.stop_event
    /\ perp' = [perp EXCEPT !.stop_event = TRUE,
                            !.exchanges = {},
                            !.active_subscriptions = {}]
    /\ obs' = Obs("perp_stop")
    /\ UNCHANGED Others_perp

PerpNext ==
    \/ PerpSubscribe
    \/ \E new_row \in Bars : PerpBar(new_row)
    \/ PerpEmpty
    \/ PerpError
    \/ PerpSleepDone
    \/ PerpStop

\* --------------------------------------------------- SpotFuturesMonitor
\* The monitor of run_subscription_spot_futures.py for one matched pair of
\* EXCHANGE.  spot_df and future_df are the two frames get_market_data hands
\* to the detector, as far as it reads them: <<>> for an empty frame, else
\* the close of the last row.  last_alert_time is last_alert_time.get(key).
MonitorInitial == [
    threshold |-> 1,
    basis_direction |-> "both",
    spot_df |-> <<>>,
    future_df |-> <<>>,
    last_alert_time |-> None ]

\* round(n / d): the nearest integer.
RoundDiv(n, d) == (2 * n + d) \div (2 * d)

\* calculate_price_difference: <<>> for None, else the basis in
\* ten-thousandths of a percent together with the two closes.
calculate_price_difference(spot_df, future_df) ==
    IF spot_df = <<>> \/ future_df = <<>> THEN <<>>
    ELSE IF spot_df[1] <= 0 THEN <<>>
    ELSE << [ spot_price |-> spot_df[1],
              future_price |-> future_df[1],
              price_difference_percent |->
                  RoundDiv((future_df[1] - spot_df[1]) * 1000000, spot_df[1]) ] >>

\* The direction filter of detect_abnormal_basis: TRUE when the pair is
\* skipped.
DirectionSkips(basis_direction, price_diff) ==
    LET is_premium == price_diff > 0
    IN  \/ basis_direction = "premium" /\ ~is_premium
        \/ basis_direction = "discount" /\ is_premium

\* detect_abnormal_basis for the pair: the list of alerts it returns.  The
\* threshold (tenths of a percent) is compared with the unrounded basis.
detect_abnormal_basis(m) ==
    LET d == calculate_price_difference(m.spot_df, m.future_df)
    IN  IF d = <<>> THEN <<>>
        ELSE LET price_diff == d[1].future_price - d[1].spot_price
             IN  IF DirectionSkips(m.basis_direction, price_diff) THEN <<>>
                 ELSE IF Abs(price_diff) * 1000 >= m.threshold * d[1].spot_price
                 THEN << [ kind |-> "basis",
                           price_difference_percent |-> d[1].price_difference_percent,
                           direction |-> IF price_diff > 0 THEN "premium"
                                         ELSE "discount" ] >>
                 ELSE <<>>

\* _filter_cooldown_alerts.  A key never alerted reads as time 0 of the
\* epoch, which is further back than the cooldown in every run.
filter_cooldown_alerts(alerts, last_alert_time, current_time) ==
    IF last_alert_time = None \/ current_time - last_alert_time > alert_cooldown
    THEN alerts ELSE <<>>

Others_monitor == <<ws, tasks, analyzer, sdf, perp, feed, entry, settings, now, ticks, hist, Aside>>

\* The latest spot candle, as the next get_market_data will return it.
BasisSpotBar(close) ==
    /\ entry = "spot_futures"
    /\ monitor' = [monitor EXCEPT !.spot_df = <<close>>]
    /\ monitor' # monitor
    /\ obs' = Obs("spot_bar")
    /\ UNCHANGED Others_monitor

\* The latest futures candle.
BasisFutureBar(close) ==
    /\ entry = "spot_futures"
    /\ monitor' = [monitor EXCEPT !.future_df = <<close>>]
    /\ monitor' # monitor
    /\ obs' = Obs("future_bar")
    /\ UNCHANGED Others_monitor

\* One iteration of monitor_price_differences.
MonitorPass ==
    /\ entry = "spot_futures"
    /\ LET abnormal_basis == detect_abnormal_basis(monitor)
           filtered_alerts == filter_cooldown_alerts(abnormal_basis,
                                  monitor.last_alert_time, now)
       IN  /\ monitor' = [monitor EXCEPT !.last_alert_time =
                             IF filtered_alerts # <<>> THEN now ELSE @]
           /\ \E outcome \in IF filtered_alerts # <<>> THEN NotifierOutcomes
                              ELSE {""} :
                 /\ obs' = [Obs("monitor_pass") EXCEPT
                               !.detected = abnormal_basis,
                               !.alert = filtered_alerts,
                               !.notifier = outcome]
    /\ UNCHANGED Others_monitor

\* --------------------------------------------------- PerpExchangeMonitor
\* The cross-venue detector as a function of the market data it is given.
\* Prices are in tenths, volumes in millions of USDT, the threshold in
\* tenths of a percent.
PERP_EXCHANGES == <<"binance", "gate">>
PERP_DIFF_THRESHOLD == 2
\* The floors calculate_price_differences tests the summed volume against.
BINANCE_VOLUME_FLOOR == 20
GATE_VOLUME_FLOOR == 1

ETH_USDT_PERP == <<"ETH", "/", "USDT", ":", "USDT">>
SOL_USDT_PERP == <<"SOL", "/", "USDT", ":", "USDT">>
CrossSymbols == << ETH_USDT_PERP, SOL_USDT_PERP >>

\* market_data[venue]['future'] as a function on CrossSymbols: <<>> where
\* the dict has no key for the symbol, else the frame.
CrossInitial == [
    exchanges |-> PERP_EXCHANGES,
    threshold |-> PERP_DIFF_THRESHOLD,
    market_data |-> [ venue \in {"binance", "gate", "okx"} |->
                        [ k \in 1..Len(CrossSymbols) |-> <<>> ] ] ]

\* str.replace(marker, '')
RECURSIVE RemoveAll(_, _)
RemoveAll(symbol, marker) ==
    IF Len(symbol) < Len(marker) THEN symbol
    ELSE IF SubSeq(symbol, 1, Len(marker)) = marker
         THEN RemoveAll(SubSeq(symbol, Len(marker) + 1, Len(symbol)), marker)
         ELSE << symbol[1] >> \o RemoveAll(Tail(symbol), marker)

\* The markers _normalize_symbol deletes, in its order.
PerpMarkers == << <<"PERP">>, <<"-", "SWAP">>, <<"_", "PERP">>,
                 <<"-", "FUTURES">>, <<"/", "USDT", "-", "PERP">>,
                 <<":", "USDT">> >>

\* `for marker in [...]: normalized = normalized.replace(marker, '')`
RECURSIVE RemoveEach(_, _)
RemoveEach(symbol, markers) ==
    IF markers = <<>> THEN symbol
    ELSE CHOOSE result \in
             { RemoveEach(normalized, Tail(markers)) :
                 normalized \in { RemoveAll(symbol, Head(markers)) } } : TRUE

\* str.strip('_-:/')
RECURSIVE Strip(_)
Strip(symbol) ==
    IF symbol = <<>> THEN <<>>
    ELSE IF symbol[1] \in {"_", "-", ":", "/"} THEN Strip(Tail(symbol))
    ELSE IF Last(symbol) \in {"_", "-", ":", "/"}
         THEN Strip(SubSeq(symbol, 1, Len(symbol) - 1))
    ELSE symbol

\* _normalize_symbol: the canonical base of a perpetual's symbol.
normalize_symbol(symbol) ==
    LET normalized == RemoveEach(symbol, PerpMarkers)
        slashes == { i \in 1..Len(normalized) : normalized[i] = "/" }
        first == CHOOSE i \in slashes : \A j \in slashes : i <= j
        rest == { j \in slashes : j > first }
        second == IF rest = {} THEN Len(normalized) + 1
                  ELSE CHOOSE i \in rest : \A j \in rest : i <= j
    IN  IF /\ slashes # {}
           /\ \E k \in first + 1 .. second - 1 : normalized[k] = "USDT"
        THEN SubSeq(normalized, 1, first - 1)
        ELSE IF normalized # <<>> /\ Last(normalized) = "USDT"
        THEN Strip(SubSeq(normalized, 1, Len(normalized) - 1))
        ELSE normalized

\* The canonical base of each symbol, and the symbols normalized_map keeps:
\* those with 'USDT' in them and a non-empty canonical base.
CrossBase == [ k \in 1..Len(CrossSymbols) |-> normalize_symbol(CrossSymbols[k]) ]
CrossKept == { k \in 1..Len(CrossSymbols) :
                 Contains(CrossSymbols[k], <<"USDT">>) /\ CrossBase[k] # <<>> }

\* The frame market_data holds for a canonical base on a venue, <<>> when
\* normalized_map has no entry for the base.
CrossFrameOf(market_data, venue, base) ==
    LET ks == { k \in CrossKept :
                  market_data[venue][k] # <<>> /\ CrossBase[k] = base }
    IN  IF ks = {} THEN <<>> ELSE market_data[venue][CHOOSE k \in ks : TRUE]

\* The keys of normalized_map for a venue.
CrossBasesOf(market_data, venue) ==
    { CrossBase[k] : k \in { j \in CrossKept : market_data[venue][j] # <<>> } }

\* `exchange in market_data and 'future' in market_data[exchange]`: the
\* venue has stored at least one frame.
CrossHasData(market_data, venue) ==
    \E k \in 1..Len(CrossSymbols) : market_data[venue][k] # <<>>

\* The loop that intersects the venues' bases, started from the empty set.
RECURSIVE common_bases(_, _, _)
common_bases(market_data, venues, acc) ==
    IF venues = <<>> THEN acc
    ELSE LET symbols == CrossBasesOf(market_data, Head(venues))
         IN  common_bases(market_data, Tail(venues),
                          IF acc = {} THEN symbols ELSE acc \cap symbols)

\* _build_symbol_mapping: the bases to compare, each with the venues that
\* list it, in the order of self.exchanges.
build_symbol_mapping(market_data, exchanges) ==
    LET HasData(venue) == CrossHasData(market_data, venue)
        exchange_symbols == SelectSeq(exchanges, HasData)
    IN  IF Len(exchange_symbols) < 2 THEN [ bases |-> {}, venues |-> <<>> ]
        ELSE [ bases |-> common_bases(market_data, exchange_symbols, {}),
               venues |-> exchange_symbols ]

\* The two volume tests of a venue pair.
volume_threshold_passed(exchange1, volume1, exchange2, volume2) ==
    /\ ~(exchange1 = "binance" /\ volume1 < BINANCE_VOLUME_FLOOR)
    /\ ~(exchange2 = "binance" /\ volume2 < BINANCE_VOLUME_FLOOR)
    /\ ~(exchange1 = "gate" /\ volume1 < GATE_VOLUME_FLOOR)
    /\ ~(exchange2 = "gate" /\ volume2 < GATE_VOLUME_FLOOR)

\* The comparison of one venue pair for one base: <<>> or the alert.
CrossPairAlert(market_data, threshold, base, exchange1, exchange2) ==
    LET df1 == CrossFrameOf(market_data, exchange1, base)
        df2 == CrossFrameOf(market_data, exchange2, base)
        price1 == Last(df1).close
        price2 == Last(df2).close
        volume1 == SumVolume(df1)
        volume2 == SumVolume(df2)
    IN  IF price1 <= 0 \/ price2 <= 0 THEN <<>>
        ELSE IF ~volume_threshold_passed(exchange1, volume1, exchange2, volume2)
        THEN <<>>
        ELSE IF Abs(price2 - price1) * 1000 >= threshold * price1
        THEN << [ kind |-> "cross",
                  base_symbol |-> base,
                  exchange1 |-> exchange1,
                  exchange2 |-> exchange2,
                  price1 |-> price1,
                  price2 |-> price2,
                  volume1 |-> volume1,
                  volume2 |-> volume2,
                  price_difference_percent |->
                      RoundDiv((price2 - price1) * 1000000, price1),
                  higher_exchange |-> IF price2 > price1 THEN exchange2
                                      ELSE exchange1 ] >>
        ELSE <<>>

\* The index pairs (i, j), i < j, of a list of n venues, in loop order.
RECURSIVE CrossPairs(_, _, _)
CrossPairs(n, i, j) ==
    IF i >= n THEN <<>>
    ELSE IF j > n THEN CrossPairs(n, i + 1, i + 2)
    ELSE << <<i, j>> >> \o CrossPairs(n, i, j + 1)

RECURSIVE Flatten(_)
Flatten(ss) == IF ss = <<>> THEN <<>> ELSE Head(ss) \o Flatten(Tail(ss))

\* The frames of one base that the pass reads: the venues of the mapping that
\* hold a non-empty frame for it.
CrossVenuesOf(market_data, mapping, base) ==
    LET Lists(venue) == CrossFrameOf(market_data, venue, base) # <<>>
    IN  SelectSeq(mapping.venues, Lists)

\* df.iloc[-1]['close'] raises KeyError on a frame without a close column.
HasClose(df) == "close" \in DOMAIN Last(df)

\* The alerts of one base: every pair of venues holding a price for it.
CrossBaseAlerts(market_data, mapping, threshold, k) ==
    LET base == CrossBase[k]
        venues == CrossVenuesOf(market_data, mapping, base)
        pairs == CrossPairs(Len(venues), 1, 2)
    IN  IF base \notin mapping.bases \/ Len(venues) < 2 THEN <<>>
        ELSE Flatten([ q \in 1..Len(pairs) |->
                CrossPairAlert(market_data, threshold, base,
                               venues[pairs[q][1]], venues[pairs[q][2]]) ])

\* The bases whose price gathering raises: compared on two venues or more,
\* with a frame that has no close column.
CrossRaisingBases(market_data, mapping) ==
    { k \in 1..Len(CrossSymbols) :
        LET base == CrossBase[k]
            venues == CrossVenuesOf(market_data, mapping, base)
        IN  /\ base \in mapping.bases
            /\ Len(mapping.venues) >= 2
            /\ \E i \in 1..Len(venues) :
                  ~HasClose(CrossFrameOf(market_data, venues[i], base)) }

\* calculate_price_differences: the list of alerts of one pass, or the
\* exception that leaves it. No statement of the loops is inside a try.
calculate_price_differences(market_data, exchanges, threshold) ==
    LET mapping == build_symbol_mapping(market_data, exchanges)
    IN  IF CrossRaisingBases(market_data, mapping) # {}
        THEN [raised |-> TRUE, alerts |-> <<>>]
        ELSE [raised |-> FALSE,
              alerts |-> Flatten([ k \in 1..Len(CrossSymbols) |->
                  CrossBaseAlerts(market_data, mapping, threshold, k) ])]

Others_cross == <<entry, settings, now, ticks, ws, tasks, analyzer, sdf, perp,
                  monitor, feed, hist, listing, sweep, snapshot, closer,
                  requests, adapters,
    scheduler>>

\* One call of calculate_price_differences.
CrossPass ==
    /\ entry = "cross_venue"
    /\ LET result == calculate_price_differences(cross.market_data,
                                   cross.exchanges, cross.threshold)
       IN  obs' = [Obs("cross_pass") EXCEPT
                      !.detected = result.alerts,
                      !.exit = IF result.raised THEN "exception" ELSE @]
    /\ UNCHANGED cross
    /\ UNCHANGED Others_cross

\* ------------------------------------------------ one-shot adapter requests
\* settings.MAX_CONCURRENT_REQUESTS, the value AsyncCryptoRador passes to
\* initialize_exchanges instead, and the largest batch fetch_recent_data
\* creates at once.
MAX_CONCURRENT_REQUESTS == 20
max_concurrent_requests == 20
batch_size == 100

\* The stream tasks of the event-driven script: one per subscribed market.
MaxStreams == MAX_CONCURRENT_REQUESTS + MaxTasks

\* semaphore is the value of asyncio.Semaphore (None before
\* initialize_exchanges), waiting the fetch tasks created and not yet inside
\* `async with self.semaphore`, bulk the fetch_ohlcv calls inside it, daily
\* the get_historical_daily_data calls awaiting exchange.fetch_ohlcv,
\* cache_expiry the entry of the watched market's key in cache_expiry (None:
\* the key is in neither cache dict).
\* call is the fetch_ohlcv call for the watched symbol that the model
\* follows step by step (its position, its local retries, the adapter calls
\* it has made), invalid_symbols the set of the watched exchange.
CallIdle == [ pc |-> "idle", retries |-> 0, calls |-> 0 ]

RequestsInitial == [ semaphore |-> None, waiting |-> 0, bulk |-> 0, daily |-> 0,
                     cache_expiry |-> None, call |-> CallIdle,
                     invalid_symbols |-> {} ]

\* timedelta(hours=6), in seconds.
cache_hours == 6
cache_seconds == cache_hours * 60 * 60

Others_requests == <<entry, settings, now, ticks, ws, tasks, analyzer, sdf,
                     perp, monitor, feed, hist, listing, sweep, cross,
                     snapshot, closer, adapters,
    scheduler>>

\* AsyncMarketDataFetcher.initialize_exchanges(max_concurrent_requests)
InitializeSemaphore ==
    /\ entry = "polling"
    /\ requests.semaphore = None
    /\ requests' = [requests EXCEPT !.semaphore = max_concurrent_requests]
    /\ obs' = Obs("initialize_exchanges")
    /\ UNCHANGED Others_requests

\* fetch_recent_data creates the tasks of one batch; it awaits them all
\* before it creates the next batch.
FetchRecentData(n) ==
    /\ entry = "polling"
    /\ requests.semaphore # None
    /\ requests.waiting = 0
    /\ requests.bulk = 0
    /\ requests' = [requests EXCEPT !.waiting = n]
    /\ obs' = Obs("fetch_recent_data")
    /\ UNCHANGED Others_requests

\* fetch_ohlcv_with_semaphore enters `async with self.semaphore`.
FetchAcquire ==
    /\ entry = "polling"
    /\ requests.waiting > 0
    /\ requests.semaphore # None
    /\ requests.semaphore > 0
    /\ requests' = [requests EXCEPT !.waiting = @ - 1,
                                    !.semaphore = @ - 1,
                                    !.bulk = @ + 1]
    /\ obs' = Obs("fetch_acquire")
    /\ UNCHANGED Others_requests

\* fetch_ohlcv returns or raises: the semaphore is released.
FetchRelease ==
    /\ entry = "polling"
    /\ requests.bulk > 0
    /\ requests' = [requests EXCEPT !.bulk = @ - 1, !.semaphore = @ + 1]
    /\ obs' = Obs("fetch_release")
    /\ UNCHANGED Others_requests

\* A stream task's on_new_kline reaches get_historical_daily_data with no
\* valid cache entry: exchange.fetch_ohlcv(symbol, '1d', ...) is awaited.
DailyHistoryBegin ==
    /\ entry = "event_driven"
    /\ requests.daily < MaxStreams
    /\ requests' = [requests EXCEPT !.daily = @ + 1]
    /\ obs' = Obs("daily_history_begin")
    /\ UNCHANGED Others_requests

\* The request ends.  With rows for the watched market the frame goes into
\* historical_data_cache and its expiry into cache_expiry; with no rows, an
\* exception or another market the watched market's entry stays as it is.
DailyHistoryEnd ==
    /\ entry = "event_driven"
    /\ requests.daily > 0
    /\ \E cached \in BOOLEAN :
          requests' = [requests EXCEPT !.daily = @ - 1,
                                       !.cache_expiry = IF cached
                                                        THEN now + cache_seconds
                                                        ELSE @]
    /\ obs' = Obs("daily_history_end")
    /\ UNCHANGED Others_requests

\* ---- fetch_ohlcv, the one-shot request with its retry loop
\* The messages the except ccxt.BaseError branch looks for.
FetchInvalidKeywords == {
    <<"invalid", "symbol">>,
    <<"symbol", "not", "found">>,
    <<"does", "not", "exist">>,
    <<"invalid", "symbol", "status">>,
    <<"has", "no", "symbol">>,
    <<"unknown", "symbol">> }

FetchRetryKeywords == {
    <<"rate", "limit">>, <<"too", "many", "requests">>, <<"ddos">>,
    <<"nonce">>, <<"busy">>, <<"maintenance">>, <<"temporary">> }

FetchIsInvalid(msg) == \E kw \in FetchInvalidKeywords : Contains(msg, kw)
FetchIsRetryable(msg) == \E kw \in FetchRetryKeywords : Contains(msg, kw)

\* Messages of the adapter's errors on a one-shot request.
FetchMessages == {
    <<"invalid", "symbol">>,
    <<"binance", "has", "no", "symbol">>,
    <<"rate", "limit">>,
    <<"exchange", "under", "maintenance">>,
    <<"service", "unavailable">> }

\* fetch_ohlcv is called for the watched symbol: a known invalid symbol
\* returns at once, any other enters the while loop with retries = 0.
FetchOhlcvBegin ==
    /\ entry = "polling"
    /\ requests.semaphore # None
    /\ requests.call.pc \in {"idle", "returned"}
    /\ IF SYMBOL \in requests.invalid_symbols
       THEN /\ requests' = [requests EXCEPT !.call =
                   [ pc |-> "returned", retries |-> 0, calls |-> 0 ]]
            /\ obs' = [Obs("fetch_ohlcv") EXCEPT !.exit = "known_invalid"]
       ELSE /\ requests' = [requests EXCEPT !.call =
                   [ pc |-> IF 0 <= settings.MAX_RETRIES THEN "calling"
                            ELSE "returned",
                     retries |-> 0, calls |-> 0 ]]
            /\ obs' = [Obs("fetch_ohlcv") EXCEPT !.exit =
                          IF 0 <= settings.MAX_RETRIES THEN "" ELSE "loop_condition"]
    /\ UNCHANGED Others_requests

\* One more failure of a kind that is retried: the counter goes up and the
\* call sleeps sleep_s seconds, or gives up when the counter has passed
\* max_retries.  Nothing is added to invalid_symbols.
FetchRetry(op, msg, sleep_s) ==
    LET retries == requests.call.retries + 1
    IN  IF retries <= settings.MAX_RETRIES
        THEN /\ requests' = [requests EXCEPT !.call =
                    [ pc |-> "sleeping", retries |-> retries,
                      calls |-> requests.call.calls + 1 ]]
             /\ obs' = [Obs(op) EXCEPT !.msg = msg, !.sleep_s = sleep_s,
                                       !.was = requests.call.retries]
        ELSE /\ requests' = [requests EXCEPT !.call =
                    [ pc |-> "returned", retries |-> retries,
                      calls |-> requests.call.calls + 1 ]]
             /\ obs' = [Obs(op) EXCEPT !.msg = msg, !.exit = "max_retries",
                                       !.was = requests.call.retries]

\* The adapter call ends without an exception: fetch_ohlcv returns a frame,
\* empty or not.
FetchOhlcvReturns ==
    /\ entry = "polling"
    /\ requests.call.pc = "calling"
    /\ requests' = [requests EXCEPT !.call.pc = "returned",
                                    !.call.calls = @ + 1]
    /\ obs' = [Obs("fetch_returns") EXCEPT !.exit = "returned",
                                           !.was = requests.call.retries]
    /\ UNCHANGED Others_requests

\* asyncio.wait_for raises TimeoutError.
FetchOhlcvTimeout ==
    /\ entry = "polling"
    /\ requests.call.pc = "calling"
    /\ FetchRetry("fetch_timeout", <<>>, settings.RETRY_DELAY_SECONDS)
    /\ UNCHANGED Others_requests

\* The adapter raises a ccxt.BaseError with the message msg.
FetchOhlcvBaseError(msg) ==
    /\ entry = "polling"
    /\ requests.call.pc = "calling"
    /\ IF FetchIsInvalid(msg)
       THEN /\ requests' = [requests EXCEPT
                   !.invalid_symbols = @ \cup {SYMBOL},
                   !.call.pc = "returned",
                   !.call.calls = @ + 1]
            /\ obs' = [Obs("fetch_error") EXCEPT !.msg = <<msg>>,
                                                 !.exit = "permanent",
                                                 !.was = requests.call.retries]
       ELSE IF FetchIsRetryable(msg)
       THEN FetchRetry("fetch_error", <<msg>>,
                       settings.RETRY_DELAY_SECONDS
                           * 2 ^ requests.call.retries)
       ELSE /\ requests' = [requests EXCEPT !.call.pc = "returned",
                                            !.call.calls = @ + 1]
            /\ obs' = [Obs("fetch_error") EXCEPT !.msg = <<msg>>,
                                                 !.exit = "error",
                                                 !.was = requests.call.retries]
    /\ UNCHANGED Others_requests

\* Any other exception.
FetchOhlcvUnexpected ==
    /\ entry = "polling"
    /\ requests.call.pc = "calling"
    /\ requests' = [requests EXCEPT !.call.pc = "returned",
                                    !.call.calls = @ + 1]
    /\ obs' = [Obs("fetch_unexpected") EXCEPT !.exit = "unexpected",
                                              !.was = requests.call.retries]
    /\ UNCHANGED Others_requests

\* asyncio.sleep returns and the while condition holds: the next adapter
\* call is made.
FetchOhlcvSleepDone ==
    /\ entry = "polling"
    /\ requests.call.pc = "sleeping"
    /\ requests' = [requests EXCEPT !.call.pc = "calling"]
    /\ obs' = Obs("fetch_sleep_done")
    /\ UNCHANGED Others_requests

\* ---- the components outside the three streaming scripts, before any of
\* their steps
\* ------------------------------------------------------ AsyncCryptoRador
\* The polling scanner: every SCAN_INTERVAL_SECONDS it fetches the last
\* LOOKBACK_MINUTES bars of each listed symbol over REST, runs
\* MarketAnalyzer.detect_abnormal_movements and sends what that returns.
SCAN_INTERVAL_SECONDS == 30

PollBar(ts, open, close, volume) ==
    [timestamp |-> ts, open |-> open, close |-> close, volume |-> volume]

SweepInitial == [ running |-> FALSE, pc |-> "idle" ]

\* calculate_price_change and calculate_volume_ratio against the two
\* thresholds; FALSE where either returns None.
SweepAbnormal(df, st) ==
    /\ Len(df) >= 2
    /\ df[1].open > 0
    /\ SumVolume(SubSeq(df, 1, Len(df) - 1)) > 0
    /\ is_abnormal_price(Last(df).close, df[1].open, st.MIN_PRICE_INCREASE_PERCENT)
    /\ Last(df).volume * (Len(df) - 1) * 10 >=
           st.VOLUME_SPIKE_THRESHOLD * SumVolume(SubSeq(df, 1, Len(df) - 1))

\* detect_abnormal_movements for the one symbol of market_data: <<>> or the
\* movement it reports (figures in hundredths, rounded down).
detect_abnormal_movements(symbol, df, st) ==
    IF is_stablecoin_pair(symbol) THEN <<>>
    ELSE IF df = <<>> \/ Len(df) < st.LOOKBACK_MINUTES THEN <<>>
    ELSE IF ~SweepAbnormal(df, st) THEN <<>>
    ELSE << [ price_change_percent |->
                  ((Last(df).close - df[1].open) * 10000) \div df[1].open,
              volume_ratio |->
                  (Last(df).volume * (Len(df) - 1) * 100) \div
                      SumVolume(SubSeq(df, 1, Len(df) - 1)) ] >>

Others_sweep == <<entry, settings, ws, tasks, analyzer, sdf, perp, monitor,
                  feed, listing, cross, snapshot, closer, requests, adapters,
    scheduler>>

\* run_scanner up to its first scan.
SweepStart ==
    /\ entry = "polling"
    /\ sweep.pc = "idle"
    /\ sweep' = [ running |-> TRUE, pc |-> "scan" ]
    /\ obs' = Obs("sweep_start")
    /\ UNCHANGED <<now, ticks, hist>>
    /\ UNCHANGED Others_sweep

\* scan_markets with df the frame fetch_recent_data returns for the listed
\* symbol (<<>>: nothing fetched).  Whatever the detector returns goes to
\* notifier.send_notification.
ScanMarkets(df) ==
    /\ entry = "polling"
    /\ sweep.pc = "scan"
    /\ LET movements == IF df = <<>> THEN <<>>
                        ELSE detect_abnormal_movements(listing.symbol, df, settings)
       IN  IF movements = <<>>
           THEN /\ obs' = Obs("scan")
                /\ UNCHANGED hist
           ELSE \E outcome \in NotifierOutcomes :
                /\ obs' = [Obs("scan") EXCEPT !.notifier = outcome, !.alert =
                             << [ kind |-> "volatility",
                                  key |-> VKEY,
                                  at |-> now,
                                  prev |-> hist.last_emit,
                                  price_change_percent |->
                                      movements[1].price_change_percent,
                                  volume_ratio |-> movements[1].volume_ratio ] >>]
                /\ hist' = [hist EXCEPT !.last_emit = now]
    /\ sweep' = [sweep EXCEPT !.pc = IF sweep.running THEN "sleep" ELSE "done"]
    /\ UNCHANGED <<now, ticks>>
    /\ UNCHANGED Others_sweep

\* asyncio.sleep(SCAN_INTERVAL_SECONDS) returns and the loop tests running.
SweepSleepDone ==
    /\ entry = "polling"
    /\ sweep.pc = "sleep"
    /\ ticks < MaxTicks
    /\ now' = now + SCAN_INTERVAL_SECONDS
    /\ ticks' = ticks + 1
    /\ sweep' = [sweep EXCEPT !.pc = IF sweep.running THEN "scan" ELSE "done"]
    /\ obs' = Obs("sweep_sleep")
    /\ UNCHANGED hist
    /\ UNCHANGED Others_sweep

\* shutdown, scheduled by handle_signal.
SweepShutdown ==
    /\ entry = "polling"
    /\ sweep.running
    /\ sweep' = [sweep EXCEPT !.running = FALSE]
    /\ obs' = Obs("sweep_shutdown")
    /\ UNCHANGED <<now, ticks, hist>>
    /\ UNCHANGED Others_sweep

\* ------------------------------- run_perp_exchange_ws_monitor.py: main()
\* The scan loop of the WebSocket cross-venue script.  cross.market_data is
\* what the subscriber's store holds for the monitored venues, sweep.pc the
\* position of main() in its loop.

\* What calling the coroutine function get_market_data gives: its result
\* when the call is awaited, the coroutine object when it is not.
Coroutine == [ coroutine |-> "get_market_data" ]
CallCoroutine(awaited, result) == IF awaited THEN result ELSE Coroutine

\* `market_data = market_subscriber.get_market_data()`: no await.
ScanMarketData(store) == CallCoroutine(FALSE, store)

\* The value has the dict method items().
HasItems(v) == v # Coroutine

\* main() up to `while True`: market_subscriber.start() returned True.
PerpScanStart ==
    /\ entry = "perp_ws"
    /\ perp.pc # "none"
    /\ sweep.pc = "idle"
    /\ sweep' = [ running |-> TRUE, pc |-> "scan" ]
    /\ obs' = Obs("scan_start")
    /\ UNCHANGED <<now, ticks, hist>>
    /\ UNCHANGED Others_sweep

\* One iteration of the loop up to its sleep.  market_data.items() on a
\* value without items() raises AttributeError, which the loop's
\* `except Exception` logs before it sleeps 5 seconds.
PerpScanPass ==
    /\ entry = "perp_ws"
    /\ sweep.pc = "scan"
    /\ LET market_data == ScanMarketData(cross.market_data)
       IN  IF ~HasItems(market_data)
           THEN obs' = [Obs("scan_pass") EXCEPT !.exit = "exception",
                                               !.sleep_s = 5]
           ELSE IF ~\E venue \in DOMAIN market_data :
                       CrossHasData(market_data, venue)
           THEN obs' = [Obs("scan_pass") EXCEPT !.exit = "no_data",
                                               !.sleep_s = 5]
           ELSE \E result \in { calculate_price_differences(market_data,
                                     cross.exchanges, cross.threshold) } :
                    \E outcome \in IF result.alerts # <<>>
                                   THEN NotifierOutcomes ELSE {""} :
                       obs' = [Obs("scan_pass") EXCEPT
                                  !.detected = result.alerts,
                                  !.alert = result.alerts,
                                  !.notifier = outcome,
                                  !.exit = IF result.raised \/ outcome = "raised"
                                           THEN "exception" ELSE @,
                                  !.sleep_s = IF result.raised \/ outcome = "raised"
                                              THEN 5 ELSE SCAN_INTERVAL_SECONDS]
    /\ sweep' = [sweep EXCEPT !.pc = "sleep"]
    /\ UNCHANGED <<now, ticks, hist>>
    /\ UNCHANGED Others_sweep

\* asyncio.sleep returns: `while True` goes round.
PerpScanSleepDone ==
    /\ entry = "perp_ws"
    /\ sweep.pc = "sleep"
    /\ sweep' = [sweep EXCEPT !.pc = "scan"]
    /\ obs' = Obs("scan_sleep")
    /\ UNCHANGED <<now, ticks, hist>>
    /\ UNCHANGED Others_sweep

\* --------------------------------------------- adapter instances
\* The ccxt.pro instances of the event-driven entry, numbered in the order
\* they are created: created is the number made so far, held the instance
\* self.exchanges[exchange_id] refers to (<<>>: no entry), closed the
\* instances close() was called on, pc the position of the entry script.
MaxAdapters == 5

AdaptersInitial == [ created |-> 0, held |-> <<>>, closed |-> {}, pc |-> "init" ]

Others_adapters == <<entry, settings, now, ticks, tasks, analyzer, sdf, perp,
                     monitor, feed, hist, listing, sweep, cross, snapshot,
                     closer, requests, scheduler>>

\* initialize_exchanges: exchange_class(config) is assigned to
\* self.exchanges[exchange_id] over whatever was there; when load_markets
\* raises the entry is deleted.
InitializeAdapters(a, ok) ==
    [ a EXCEPT !.created = @ + 1,
               !.held = IF ok THEN << a.created + 1 >> ELSE <<>> ]

\* EventDrivenCryptoRador.setup, or any call of initialize_exchanges before
\* the subscriber is started.
AdapterSetup(ok) ==
    /\ entry = "event_driven"
    /\ adapters.pc \in {"init", "set_up"}
    /\ adapters.created < MaxAdapters
    /\ ws' = InitializeExchanges(ws, ok)
    /\ adapters' = [InitializeAdapters(adapters, ok) EXCEPT !.pc = "set_up"]
    /\ obs' = Obs("setup")
    /\ UNCHANGED Others_adapters

\* data_subscriber.start(): is_running is set and initialize_exchanges is
\* called.
AdapterStart(ok) ==
    /\ entry = "event_driven"
    /\ adapters.pc \in {"init", "set_up"}
    /\ adapters.created < MaxAdapters
    /\ ~ws.is_running
    /\ ws' = InitializeExchanges([ws EXCEPT !.is_running = TRUE], ok)
    /\ adapters' = [InitializeAdapters(adapters, ok) EXCEPT !.pc = "running"]
    /\ obs' = Obs("start")
    /\ UNCHANGED Others_adapters

\* get_historical_daily_data without a valid cache entry: an instance is
\* created, fetch_ohlcv is awaited and close() follows it inside the try;
\* when fetch_ohlcv raises the except branch returns an empty frame.
AdapterDailyHistory(ok) ==
    /\ entry = "event_driven"
    /\ adapters.pc = "running"
    /\ adapters.created < MaxAdapters
    /\ adapters' = [adapters EXCEPT !.created = @ + 1,
                                    !.closed = IF ok
                                               THEN @ \cup {adapters.created + 1}
                                               ELSE @]
    /\ obs' = [Obs("daily_history") EXCEPT !.exit =
                  IF ok THEN "" ELSE "exception"]
    /\ UNCHANGED ws
    /\ UNCHANGED Others_adapters

\* shutdown -> data_subscriber.stop(): close() is called on every value of
\* self.exchanges.
AdapterStop ==
    /\ entry = "event_driven"
    /\ adapters.pc = "running"
    /\ ws.is_running
    /\ ws' = [ws EXCEPT !.is_running = FALSE, !.active_subscriptions = {}]
    /\ adapters' = [adapters EXCEPT
                       !.closed = @ \cup { adapters.held[k] :
                                              k \in 1..Len(adapters.held) },
                       !.pc = "stopped"]
    /\ obs' = Obs("stop")
    /\ UNCHANGED Others_adapters

\* ------------------------------------ main.py: CryptoRador, TaskScheduler
\* The scheduled scanner and its two threads.  app_running is
\* CryptoRador.running, running is TaskScheduler.running, jobs holds the
\* next_run of each job schedule knows, caller is the position of the
\* calling (main) thread, thread the position of scheduler_thread, scans the
\* threads that are inside scan_markets.
SchedulerInitial ==
    [ app_running |-> FALSE, running |-> FALSE, jobs |-> <<>>,
      caller |-> "idle", thread |-> "none", scans |-> {} ]

Others_scheduler == <<entry, settings, ws, tasks, analyzer, sdf, perp, monitor,
                      feed, hist, listing, sweep, cross, snapshot, closer,
                      requests, adapters>>

\* Thread.is_alive() of scheduler_thread.
is_alive(thread) == thread \notin {"none", "dead"}

\* add_job: schedule.every(interval_seconds).seconds.do(task_func); the job
\* is first due one interval from now.
add_job(jobs, t) == Append(jobs, t + SCAN_INTERVAL_SECONDS)

\* schedule.run_pending runs the jobs whose next_run has come.
should_run(jobs, t) == \E k \in 1..Len(jobs) : t >= jobs[k]

\* CryptoRador.start up to add_job.
AppStart ==
    /\ entry = "scheduled"
    /\ scheduler.caller = "idle"
    /\ ~scheduler.app_running
    /\ scheduler' = [scheduler EXCEPT !.app_running = TRUE,
                                      !.jobs = add_job(@, now),
                                      !.caller = "scheduled"]
    /\ obs' = Obs("app_start")
    /\ UNCHANGED <<now, ticks>>
    /\ UNCHANGED Others_scheduler

\* TaskScheduler.start: a live thread makes it return; otherwise the thread
\* is created and started, and start() returns.
SchedulerStart ==
    /\ entry = "scheduled"
    /\ scheduler.caller = "scheduled"
    /\ scheduler' = [scheduler EXCEPT
                        !.thread = IF is_alive(@) THEN @ ELSE "created",
                        !.caller = "started"]
    /\ obs' = Obs("scheduler_start")
    /\ UNCHANGED <<now, ticks>>
    /\ UNCHANGED Others_scheduler

\* CryptoRador.start: the initial scan begins on the calling thread.
CallerScanBegin ==
    /\ entry = "scheduled"
    /\ scheduler.caller = "started"
    /\ scheduler' = [scheduler EXCEPT !.scans = @ \cup {"caller"},
                                      !.caller = "scanning"]
    /\ obs' = Obs("caller_scan_begin")
    /\ UNCHANGED <<now, ticks>>
    /\ UNCHANGED Others_scheduler

\* The initial scan returns, start() returns and main() enters its loop.
CallerScanEnd ==
    /\ entry = "scheduled"
    /\ scheduler.caller = "scanning"
    /\ scheduler' = [scheduler EXCEPT !.scans = @ \ {"caller"},
                                      !.caller = "main_loop"]
    /\ obs' = Obs("caller_scan_end")
    /\ UNCHANGED <<now, ticks>>
    /\ UNCHANGED Others_scheduler

\* _run_scheduler, its first statement: the new thread sets running.
ThreadRun ==
    /\ entry = "scheduled"
    /\ scheduler.thread = "created"
    /\ scheduler' = [scheduler EXCEPT !.running = TRUE, !.thread = "loop"]
    /\ obs' = Obs("thread_run")
    /\ UNCHANGED <<now, ticks>>
    /\ UNCHANGED Others_scheduler

\* while self.running: the thread goes on or returns.
ThreadLoopTest ==
    /\ entry = "scheduled"
    /\ scheduler.thread = "loop"
    /\ scheduler' = [scheduler EXCEPT
                        !.thread = IF scheduler.running THEN "pending"
                                   ELSE "dead"]
    /\ obs' = Obs("thread_test")
    /\ UNCHANGED <<now, ticks>>
    /\ UNCHANGED Others_scheduler

\* schedule.run_pending(): a due job starts scan_markets on the scheduler
\* thread; with none due the thread goes to its sleep.
ThreadRunPending ==
    /\ entry = "scheduled"
    /\ scheduler.thread = "pending"
    /\ scheduler' = IF should_run(scheduler.jobs, now)
                    THEN [scheduler EXCEPT !.scans = @ \cup {"thread"},
                                           !.thread = "scanning"]
                    ELSE [scheduler EXCEPT !.thread = "sleep"]
    /\ obs' = Obs("run_pending")
    /\ UNCHANGED <<now, ticks>>
    /\ UNCHANGED Others_scheduler

\* The job returns; schedule sets its next_run one interval on, when the
\* job is still among the scheduled ones.
ThreadScanEnd ==
    /\ entry = "scheduled"
    /\ scheduler.thread = "scanning"
    /\ scheduler' = [scheduler EXCEPT
                        !.scans = @ \ {"thread"},
                        !.jobs = IF @ = <<>> THEN @
                                 ELSE << now + SCAN_INTERVAL_SECONDS >>,
                        !.thread = "sleep"]
    /\ obs' = Obs("thread_scan_end")
    /\ UNCHANGED <<now, ticks>>
    /\ UNCHANGED Others_scheduler

\* time.sleep(1) returns.
ThreadSleepDone ==
    /\ entry = "scheduled"
    /\ scheduler.thread = "sleep"
    /\ scheduler' = [scheduler EXCEPT !.thread = "loop"]
    /\ obs' = Obs("thread_sleep_done")
    /\ UNCHANGED <<now, ticks>>
    /\ UNCHANGED Others_scheduler

\* A signal reaches the main thread: _signal_handler calls
\* CryptoRador.stop, which with running set calls TaskScheduler.stop, whose
\* first statement clears the scheduler's flag.  What the main thread was
\* doing stays suspended under the handler.
StopFlag ==
    /\ entry = "scheduled"
    /\ scheduler.caller \in {"started", "scanning", "main_loop"}
    /\ scheduler.app_running
    /\ scheduler' = [scheduler EXCEPT
                        !.running = FALSE,
                        !.caller = IF is_alive(scheduler.thread)
                                   THEN "stop_join" ELSE "stop_clear"]
    /\ obs' = Obs("stop_flag")
    /\ UNCHANGED <<now, ticks>>
    /\ UNCHANGED Others_scheduler

\* scheduler_thread.join(timeout=5.0) returns: the thread has ended, or the
\* timeout has run out with the thread alive.
StopJoin ==
    /\ entry = "scheduled"
    /\ scheduler.caller = "stop_join"
    /\ \E timed_out \in BOOLEAN :
          /\ timed_out = is_alive(scheduler.thread)
          /\ obs' = [Obs("stop_join") EXCEPT !.exit =
                        IF timed_out THEN "timeout" ELSE ""]
    /\ scheduler' = [scheduler EXCEPT !.caller = "stop_clear"]
    /\ UNCHANGED <<now, ticks>>
    /\ UNCHANGED Others_scheduler

\* schedule.clear(), scheduled_jobs = [], and back in CryptoRador.stop
\* running = False: stop() has returned.
StopClear ==
    /\ entry = "scheduled"
    /\ scheduler.caller = "stop_clear"
    /\ scheduler' = [scheduler EXCEPT !.jobs = <<>>,
                                      !.app_running = FALSE,
                                      !.caller = "stopped"]
    /\ obs' = Obs("stop_returned")
    /\ UNCHANGED <<now, ticks>>
    /\ UNCHANGED Others_scheduler

\* sys.exit(0) in the handler: the process ends and the daemon thread with
\* it.
ProcessExit ==
    /\ entry = "scheduled"
    /\ scheduler.caller = "stopped"
    /\ scheduler' = [scheduler EXCEPT !.caller = "exited", !.thread = "dead",
                                      !.scans = {}]
    /\ obs' = Obs("exit")
    /\ UNCHANGED <<now, ticks>>
    /\ UNCHANGED Others_scheduler

\* One scan interval of wall-clock time passes.
SchedulerTick ==
    /\ entry = "scheduled"
    /\ scheduler.caller \notin {"idle", "exited"}
    /\ ticks < MaxTicks
    /\ now' = now + SCAN_INTERVAL_SECONDS
    /\ ticks' = ticks + 1
    /\ obs' = Obs("tick")
    /\ UNCHANGED scheduler
    /\ UNCHANGED Others_scheduler

\* ------------------------------------------------------------- shutdown
\* stop() of the running entry's data component in its steps: the flags go
\* down, the adapter's close() is awaited, and when the await ends the rest
\* of stop() runs.  closer.pc is "idle" before stop(), "closing" during the
\* await and "returned" once stop() has returned.
CloserInitial == [ pc |-> "idle" ]

\* The timeout of the await on close(): asyncio.wait_for(task, timeout=...)
\* in WebSocketDataSubscriber and PerpWebSocketSubscriber, a bare
\* asyncio.gather in SubscriptionDataFetcher.
close_timeout(e) ==
    IF e = "event_driven" THEN 5 ELSE IF e = "perp_ws" THEN 10 ELSE None

Others_closer == <<entry, settings, now, ticks, tasks, analyzer, monitor, feed,
                   hist, listing, sweep, cross, snapshot, requests, adapters,
    scheduler>>

\* stop() up to the await on close().
StopCalled ==
    /\ closer.pc = "idle"
    /\ \/ /\ entry = "event_driven"
          /\ ws.is_running
          /\ ws' = [ws EXCEPT !.is_running = FALSE, !.active_subscriptions = {}]
          /\ UNCHANGED <<sdf, perp>>
       \/ /\ entry = "spot_futures"
          /\ sdf.running
          /\ sdf' = [sdf EXCEPT !.running = FALSE]
          /\ UNCHANGED <<ws, perp>>
       \/ /\ entry = "perp_ws"
          /\ perp.pc # "none"
          /\ ~perp.stop_event
          /\ perp' = [perp EXCEPT !.stop_event = TRUE]
          /\ UNCHANGED <<ws, sdf>>
    /\ closer' = [ pc |-> "closing" ]
    /\ obs' = Obs("stop_called")
    /\ UNCHANGED Others_closer

\* The await on close() ends and stop() runs to its return.
StopReturns(op) ==
    /\ closer.pc = "closing"
    /\ closer' = [ pc |-> "returned" ]
    /\ sdf' = IF entry = "spot_futures" THEN [sdf EXCEPT !.exchanges = {}] ELSE sdf
    /\ perp' = IF entry = "perp_ws"
               THEN [perp EXCEPT !.exchanges = {}, !.active_subscriptions = {}]
               ELSE perp
    /\ obs' = Obs(op)
    /\ UNCHANGED ws
    /\ UNCHANGED Others_closer

\* The adapter's close() returns.
CloseReturns ==
    /\ closer.pc = "closing"
    /\ StopReturns("close_returns")

\* The timeout of wait_for expires before close() has returned.
CloseTimesOut ==
    /\ close_timeout(entry) # None
    /\ StopReturns("close_timeout")


AsideInitial ==
    /\ listing = Market(BTC_USDT, FALSE, FALSE)
    /\ sweep = SweepInitial
    /\ cross = CrossInitial
    /\ snapshot = <<>>
    /\ closer = CloserInitial
    /\ requests = RequestsInitial
    /\ adapters = AdaptersInitial
    /\ scheduler = SchedulerInitial

\* ---- the wall clock
TickSeconds(e) ==
    IF e = "event_driven" THEN cooldown_seconds \div 2 ELSE alert_cooldown \div 2

Tick ==
    /\ ticks < MaxTicks
    /\ now' = now + TickSeconds(entry)
    /\ ticks' = ticks + 1
    /\ obs' = Obs("tick")
    /\ UNCHANGED <<entry, settings, ws, tasks, analyzer, sdf, perp, monitor, feed, hist, Aside>>

\* The wall clock over the hours a daily-history cache entry lives.
TickHours ==
    /\ entry = "event_driven"
    /\ ticks < MaxTicks
    /\ now' = now + cache_seconds
    /\ ticks' = ticks + 1
    /\ obs' = Obs("tick_hours")
    /\ UNCHANGED <<entry, settings, ws, tasks, analyzer, sdf, perp, monitor, feed, hist, Aside>>

\* ------------------------------------------------------------------- Spec
DefaultSettings == [
    LOOKBACK_MINUTES |-> WindowCap,
    buffer_size |-> WindowCap,
    MIN_PRICE_INCREASE_PERCENT |-> 20,
    VOLUME_SPIKE_THRESHOLD |-> 50,
    MAX_RETRIES |-> MAX_RETRIES,
    RETRY_DELAY_SECONDS |-> RETRY_DELAY_SECONDS ]

Init ==
    /\ entry \in {"event_driven", "spot_futures", "perp_ws"}
    /\ settings = DefaultSettings
    /\ now = 0
    /\ ticks = 0
    /\ ws = WsInitial
    /\ tasks = <<>>
    /\ analyzer = AnalyzerInitial
    /\ sdf = SfInitial
    /\ perp = PerpInitial
    /\ monitor = MonitorInitial
    /\ feed = <<>>
    /\ obs = Obs("init")
    /\ hist = HistInitial
    /\ AsideInitial

WsTaskNext ==
    \E i \in 1..Len(tasks) :
        \/ WsTaskStart(i)
        \/ \E candle \in Bars : WsBar(i, candle)
        \/ WsPercentileDone(i)
        \/ WsEmpty(i)
        \/ WsNetworkError(i)
        \/ \E msg \in Messages : WsBaseError(i, msg)
        \/ WsUnexpected(i)
        \/ WsSleepDone(i)

WsApiNext ==
    \/ \E ok \in BOOLEAN : Setup(ok)
    \/ \E ok \in BOOLEAN : Start(ok)
    \/ Stop
    \/ SubscribeToOhlcv
    \/ UnsubscribeFromOhlcv
    \/ SubscribeAllMarkets
    \/ Maintenance

Next == WsTaskNext \/ WsApiNext \/ SfNext \/ PerpNext \/ Tick

Spec == Init /\ [][Next]_vars

\* --------------------------------------------------- the three stores alone
\* Each subscriber is started, its stream is subscribed and candles arrive:
\* the runs of Spec in which nothing fails and nobody stops.
NextStores ==
    \/ Start(TRUE)
    \/ SubscribeToOhlcv
    \/ \E i \in 1..Len(tasks) :
          \/ WsTaskStart(i)
          \/ \E candle \in Bars : WsBar(i, candle)
          \/ WsPercentileDone(i)
    \/ SfStart
    \/ \E candle \in Bars : SfBar(candle)
    \/ PerpSubscribe
    \/ \E new_row \in Bars : PerpBar(new_row)

SpecStores == Init /\ [][NextStores]_vars

\* ------------------------------------------- stream supervision alone
\* The event-driven subscriber with streams that deliver no candle: the
\* owner's calls and every way a watchOHLCV call can fail.
InitStreams == Init /\ entry = "event_driven"

NextStreams ==
    \/ \E ok \in BOOLEAN : Start(ok)
    \/ Stop
    \/ SubscribeToOhlcv
    \/ UnsubscribeFromOhlcv
    \/ SubscribeAllMarkets
    \/ \E i \in 1..Len(tasks) :
          \/ WsTaskStart(i)
          \/ WsEmpty(i)
          \/ WsNetworkError(i)
          \/ \E msg \in Messages : WsBaseError(i, msg)
          \/ WsUnexpected(i)
          \/ WsSleepDone(i)

SpecStreams == InitStreams /\ [][NextStreams]_vars

\* ------------------------------------- subscribing again to a live stream
\* The owner subscribes, unsubscribes and subscribes again while the stream
\* tasks await their cursors, return from them or back off.
NextResubscribe ==
    \/ \E ok \in BOOLEAN : Start(ok)
    \/ Stop
    \/ SubscribeToOhlcvAgain
    \/ UnsubscribeFromOhlcv
    \/ \E i \in 1..Len(tasks) :
          \/ WsTaskStart(i)
          \/ WsEmpty(i)
          \/ WsNetworkError(i)
          \/ WsSleepDone(i)

SpecResubscribe == InitStreams /\ [][NextResubscribe]_vars

\* ------------------------------------------------- the basis monitor alone
\* The configurations and closes the monitor is run with: thresholds 0, 0.1
\* (the default) and 0.3 percent, closes 0, 99.8, 100 and 100.2.
BasisThresholds == {0, 1, 3}
BasisDirections == {"both", "premium", "discount"}
SpotCloses == {0, 1000}
FutureCloses == {998, 1000, 1002}

InitBasis ==
    /\ entry = "spot_futures"
    /\ settings = DefaultSettings
    /\ now = 0
    /\ ticks = 0
    /\ ws = WsInitial
    /\ tasks = <<>>
    /\ analyzer = AnalyzerInitial
    /\ sdf = SfInitial
    /\ perp = PerpInitial
    /\ \E threshold \in BasisThresholds, basis_direction \in BasisDirections :
          monitor = [MonitorInitial EXCEPT !.threshold = threshold,
                                           !.basis_direction = basis_direction]
    /\ feed = <<>>
    /\ obs = Obs("init")
    /\ hist = HistInitial
    /\ AsideInitial

NextBasis ==
    \/ \E close \in SpotCloses : BasisSpotBar(close)
    \/ \E close \in FutureCloses : BasisFutureBar(close)
    \/ MonitorPass
    \/ Tick

SpecBasis == InitBasis /\ [][NextBasis]_vars

\* ------------------------------------------------ alerts and the notifier
\* The two entries that keep a cooldown per key, with time passing: the
\* event-driven entry's streams deliver candles and its maintenance runs,
\* the basis monitor's loop passes over the latest spot and futures candles.
InitNotifier == Init /\ entry \in {"event_driven", "spot_futures"}

NextNotifier ==
    \/ Start(TRUE)
    \/ SubscribeToOhlcv
    \/ Maintenance
    \/ \E i \in 1..Len(tasks) :
          \/ WsTaskStart(i)
          \/ \E candle \in Bars : WsBar(i, candle)
          \/ WsPercentileDone(i)
    \/ \E close \in SpotCloses : BasisSpotBar(close)
    \/ \E close \in FutureCloses : BasisFutureBar(close)
    \/ MonitorPass
    \/ Tick

SpecNotifier == InitNotifier /\ [][NextNotifier]_vars

\* ------------------------------------------------ periodic maintenance
\* The event-driven entry over hours: candles arrive, anomalies are sent,
\* daily histories are fetched and cached, and periodic_maintenance runs.
\* A quiet minute and the spike after it.
MaintenanceBars == { Bar(1, 1000, 100), Bar(2, 1030, 600) }

NextMaintenance ==
    \/ Start(TRUE)
    \/ SubscribeToOhlcv
    \/ \E i \in 1..Len(tasks) :
          \/ WsTaskStart(i)
          \/ \E candle \in MaintenanceBars : WsBar(i, candle)
          \/ WsPercentileDone(i)
    \/ DailyHistoryBegin
    \/ DailyHistoryEnd
    \/ Maintenance
    \/ TickHours

SpecMaintenance == InitStreams /\ [][NextMaintenance]_vars

\* ------------------------------------------- scenario S1, event-driven path
\* The defaults of settings.py and of subscribe_to_ohlcv.
S1Settings == [
    LOOKBACK_MINUTES |-> 5,
    buffer_size |-> 10,
    MIN_PRICE_INCREASE_PERCENT |-> 20,
    VOLUME_SPIKE_THRESHOLD |-> 50,
    MAX_RETRIES |-> MAX_RETRIES,
    RETRY_DELAY_SECONDS |-> RETRY_DELAY_SECONDS ]

\* Five quiet minutes, the spike, and one more bar like the spike: the same
\* candle again (further = 6) or the next minute's candle (further = 7).
S1Feed(further) ==
    << Bar(1, 1000, 100), Bar(2, 1000, 100), Bar(3, 1000, 100),
       Bar(4, 1000, 100), Bar(5, 1000, 100), Bar(6, 1030, 600),
       Bar(further, 1030, 600) >>

InitS1 ==
    /\ entry = "event_driven"
    /\ settings = S1Settings
    /\ now = 0
    /\ ticks = 0
    /\ ws = WsInitial
    /\ tasks = <<>>
    /\ analyzer = AnalyzerInitial
    /\ sdf = SfInitial
    /\ perp = PerpInitial
    /\ monitor = MonitorInitial
    /\ feed \in { S1Feed(6), S1Feed(7) }
    /\ obs = Obs("init")
    /\ hist = HistInitial
    /\ AsideInitial

\* watchOHLCV returns the next bar of the scenario.
S1Deliver(i) ==
    /\ entry = "event_driven"
    /\ feed # <<>>
    /\ WsBarStep(i, Head(feed))
    /\ feed' = Tail(feed)
    /\ UNCHANGED <<sdf, perp, monitor, entry, settings, now, ticks, Aside>>

NextS1 ==
    \/ Start(TRUE)
    \/ SubscribeAllMarkets
    \/ \E i \in 1..Len(tasks) :
          \/ WsTaskStart(i)
          \/ S1Deliver(i)
          \/ WsPercentileDone(i)
    \/ Tick

SpecS1 == InitS1 /\ [][NextS1]_vars

\* ------------------------------------- scenario S1 on any listed market
\* The same feed on each kind of market an exchange lists: a spot pair, a
\* perpetual, a dated future and a pair of two stablecoins.
InitListed ==
    /\ entry = "event_driven"
    /\ settings = S1Settings
    /\ now = 0
    /\ ticks = 0
    /\ ws = WsInitial
    /\ tasks = <<>>
    /\ analyzer = AnalyzerInitial
    /\ sdf = SfInitial
    /\ perp = PerpInitial
    /\ monitor = MonitorInitial
    /\ feed \in { S1Feed(6), S1Feed(7) }
    /\ obs = Obs("init")
    /\ hist = HistInitial
    /\ listing \in Markets
    /\ sweep = SweepInitial
    /\ cross = CrossInitial
    /\ snapshot = <<>>
    /\ closer = CloserInitial
    /\ requests = RequestsInitial
    /\ adapters = AdaptersInitial
    /\ scheduler = SchedulerInitial

SpecListed == InitListed /\ [][NextS1]_vars

\* ------------------------------------------- the cross-venue detector alone
\* Thresholds 0 and 0.2 percent (the default); two or three venues; closes
\* 2000 and 2006; summed volumes of 4, 6 and 25 million.
CrossThresholds == {0, PERP_DIFF_THRESHOLD}
CrossVenueLists == { PERP_EXCHANGES, PERP_EXCHANGES \o <<"okx">> }
CrossCloses == {20000, 20060}
CrossVolumes(k) == IF k = 1 THEN {4, 6, 25} ELSE {25}
CrossFrames(k) ==
    { <<>> } \cup { << Bar(1, close, volume) >> :
                      close \in CrossCloses, volume \in CrossVolumes(k) }
             \cup (IF k = 2 THEN { << [timestamp |-> 1, volume |-> 25] >> }
                   ELSE {})

\* What get_market_data can hand to a pass: frames for the monitored venues
\* only.
CrossVenueStores(exchanges, venue) ==
    IF \E q \in 1..Len(exchanges) : exchanges[q] = venue
    THEN { << eth, sol >> : eth \in CrossFrames(1), sol \in CrossFrames(2) }
    ELSE { << <<>>, <<>> >> }
CrossStores(exchanges) ==
    { [ venue \in {"binance", "gate", "okx"} |->
          IF venue = "binance" THEN b ELSE IF venue = "gate" THEN g ELSE o ] :
        b \in CrossVenueStores(exchanges, "binance"),
        g \in CrossVenueStores(exchanges, "gate"),
        o \in CrossVenueStores(exchanges, "okx") }

InitCross ==
    /\ entry = "cross_venue"
    /\ settings = DefaultSettings
    /\ now = 0
    /\ ticks = 0
    /\ ws = WsInitial
    /\ tasks = <<>>
    /\ analyzer = AnalyzerInitial
    /\ sdf = SfInitial
    /\ perp = PerpInitial
    /\ monitor = MonitorInitial
    /\ feed = <<>>
    /\ obs = Obs("init")
    /\ hist = HistInitial
    /\ listing = Market(ETH_USDT_PERP, FALSE, TRUE)
    /\ sweep = SweepInitial
    /\ \E threshold \in CrossThresholds, exchanges \in CrossVenueLists :
          \E market_data \in CrossStores(exchanges) :
             cross = [ exchanges |-> exchanges,
                       threshold |-> threshold,
                       market_data |-> market_data ]
    /\ snapshot = <<>>
    /\ closer = CloserInitial
    /\ requests = RequestsInitial
    /\ adapters = AdaptersInitial
    /\ scheduler = SchedulerInitial

NextCross == CrossPass

SpecCross == InitCross /\ [][NextCross]_vars

\* ------------------------------------- the volatility detector configured
\* The event-driven script under each configuration of the three settings
\* the analyzer reads: a lookback of one bar or of the whole buffer, price
\* thresholds of 0 and 2 percent, volume thresholds of 0 and 5 times.
LookbackChoices == {1, WindowCap}
PriceThresholds == {0, 20}
VolumeThresholds == {0, 50}

InitThresholds ==
    /\ entry = "event_driven"
    /\ \E lookback \in LookbackChoices, price \in PriceThresholds,
          volume \in VolumeThresholds :
          settings = [ DefaultSettings EXCEPT
                           !.LOOKBACK_MINUTES = lookback,
                           !.MIN_PRICE_INCREASE_PERCENT = price,
                           !.VOLUME_SPIKE_THRESHOLD = volume ]
    /\ now = 0
    /\ ticks = 0
    /\ ws = WsInitial
    /\ tasks = <<>>
    /\ analyzer = AnalyzerInitial
    /\ sdf = SfInitial
    /\ perp = PerpInitial
    /\ monitor = MonitorInitial
    /\ feed = <<>>
    /\ obs = Obs("init")
    /\ hist = HistInitial
    /\ AsideInitial

NextThresholds ==
    \/ Start(TRUE)
    \/ SubscribeToOhlcv
    \/ \E i \in 1..Len(tasks) :
          \/ WsTaskStart(i)
          \/ \E candle \in Bars : WsBar(i, candle)
          \/ WsPercentileDone(i)

SpecThresholds == InitThresholds /\ [][NextThresholds]_vars

\* ------------------------------------------------- malformed deliveries
\* The event-driven subscriber fed with well-formed candles, candles with a
\* negative volume and rows of fewer than six fields.
NegativeBars == { Bar(ts, 1000, 0 - 100) : ts \in 1..MaxTs }

NextMalformed ==
    \/ Start(TRUE)
    \/ SubscribeToOhlcv
    \/ \E i \in 1..Len(tasks) :
          \/ WsTaskStart(i)
          \/ \E candle \in Bars \cup NegativeBars : WsBar(i, candle)
          \/ WsShortBar(i)
          \/ WsPercentileDone(i)

SpecMalformed == InitStreams /\ [][NextMalformed]_vars

\* ------------------------------------------- the back-off of a stream task
\* The event-driven subscriber under retry budgets of 3 (the default) and 5
\* and retry delays of 2 (the default) and 10 seconds, with streams that
\* fail, recover and fail again.
RetryBudgets == {MAX_RETRIES, MAX_RETRIES + 2}
RetryDelays == {RETRY_DELAY_SECONDS, RETRY_DELAY_SECONDS * 5}

InitBackoff ==
    /\ entry = "event_driven"
    /\ \E budget \in RetryBudgets, delay \in RetryDelays :
          settings = [ DefaultSettings EXCEPT !.MAX_RETRIES = budget,
                                              !.RETRY_DELAY_SECONDS = delay ]
    /\ now = 0
    /\ ticks = 0
    /\ ws = WsInitial
    /\ tasks = <<>>
    /\ analyzer = AnalyzerInitial
    /\ sdf = SfInitial
    /\ perp = PerpInitial
    /\ monitor = MonitorInitial
    /\ feed = <<>>
    /\ obs = Obs("init")
    /\ hist = HistInitial
    /\ AsideInitial

SpecBackoff == InitBackoff /\ [][NextStreams]_vars

\* ------------------------------------------- one-shot requests in flight
\* The polling script fetching its batches, or the event-driven script with
\* its stream tasks asking for daily histories.
BatchSizes == {1, max_concurrent_requests + 1, batch_size}

InitRequests ==
    /\ entry \in {"polling", "event_driven"}
    /\ settings = DefaultSettings
    /\ now = 0
    /\ ticks = 0
    /\ ws = WsInitial
    /\ tasks = <<>>
    /\ analyzer = AnalyzerInitial
    /\ sdf = SfInitial
    /\ perp = PerpInitial
    /\ monitor = MonitorInitial
    /\ feed = <<>>
    /\ obs = Obs("init")
    /\ hist = HistInitial
    /\ AsideInitial

NextRequests ==
    \/ InitializeSemaphore
    \/ \E n \in BatchSizes : FetchRecentData(n)
    \/ FetchAcquire
    \/ FetchRelease
    \/ DailyHistoryBegin
    \/ DailyHistoryEnd

SpecRequests == InitRequests /\ [][NextRequests]_vars

\* --------------------------------------------- the one-shot retry loop
\* One fetch_ohlcv call after another for the watched symbol, under retry
\* budgets 0, 1 and 3 and delays 2 and 10.
FetchBudgets == {0, 1, MAX_RETRIES}

InitFetch ==
    /\ entry = "polling"
    /\ \E budget \in FetchBudgets, delay \in RetryDelays :
          settings = [ DefaultSettings EXCEPT !.MAX_RETRIES = budget,
                                              !.RETRY_DELAY_SECONDS = delay ]
    /\ now = 0
    /\ ticks = 0
    /\ ws = WsInitial
    /\ tasks = <<>>
    /\ analyzer = AnalyzerInitial
    /\ sdf = SfInitial
    /\ perp = PerpInitial
    /\ monitor = MonitorInitial
    /\ feed = <<>>
    /\ obs = Obs("init")
    /\ hist = HistInitial
    /\ AsideInitial

NextFetch ==
    \/ InitializeSemaphore
    \/ FetchOhlcvBegin
    \/ FetchOhlcvReturns
    \/ FetchOhlcvTimeout
    \/ \E msg \in FetchMessages : FetchOhlcvBaseError(msg)
    \/ FetchOhlcvUnexpected
    \/ FetchOhlcvSleepDone

SpecFetch == InitFetch /\ [][NextFetch]_vars

\* ------------------------------------- the WebSocket cross-venue scan loop
\* The script with its subscriber started, over every content of the store
\* for the two monitored venues.  The loop is scheduled for as long as the
\* process runs: each of its steps is weakly fair.
InitScan ==
    /\ entry = "perp_ws"
    /\ settings = DefaultSettings
    /\ now = 0
    /\ ticks = 0
    /\ ws = WsInitial
    /\ tasks = <<>>
    /\ analyzer = AnalyzerInitial
    /\ sdf = SfInitial
    /\ perp = PerpInitial
    /\ monitor = MonitorInitial
    /\ feed = <<>>
    /\ obs = Obs("init")
    /\ hist = HistInitial
    /\ listing = Market(ETH_USDT_PERP, FALSE, TRUE)
    /\ sweep = SweepInitial
    /\ \E market_data \in CrossStores(PERP_EXCHANGES) :
          cross = [CrossInitial EXCEPT !.market_data = market_data]
    /\ snapshot = <<>>
    /\ closer = CloserInitial
    /\ requests = RequestsInitial
    /\ adapters = AdaptersInitial
    /\ scheduler = SchedulerInitial

NextScan ==
    \/ PerpSubscribe
    \/ PerpScanStart
    \/ PerpScanPass
    \/ PerpScanSleepDone

SpecScan ==
    /\ InitScan
    /\ [][NextScan]_vars
    /\ WF_vars(PerpSubscribe)
    /\ WF_vars(PerpScanStart)
    /\ WF_vars(PerpScanPass)
    /\ WF_vars(PerpScanSleepDone)

\* ------------------------------------------- the adapters of one run
\* The event-driven entry from construction to the end of shutdown, with
\* every outcome of load_markets and of the daily-history requests.
NextAdapters ==
    \/ \E ok \in BOOLEAN : AdapterSetup(ok)
    \/ \E ok \in BOOLEAN : AdapterStart(ok)
    \/ \E ok \in BOOLEAN : AdapterDailyHistory(ok)
    \/ AdapterStop

SpecAdapters == InitStreams /\ [][NextAdapters]_vars

\* ------------------------------------------- the scheduled scanner's run
\* main.py from construction to the end of the process: start() on the main
\* thread, the scheduler thread, the passing of time, and a signal at any
\* point after scheduler.start().
InitScheduler ==
    /\ entry = "scheduled"
    /\ settings = DefaultSettings
    /\ now = 0
    /\ ticks = 0
    /\ ws = WsInitial
    /\ tasks = <<>>
    /\ analyzer = AnalyzerInitial
    /\ sdf = SfInitial
    /\ perp = PerpInitial
    /\ monitor = MonitorInitial
    /\ feed = <<>>
    /\ obs = Obs("init")
    /\ hist = HistInitial
    /\ AsideInitial

NextScheduler ==
    \/ AppStart
    \/ SchedulerStart
    \/ CallerScanBegin
    \/ CallerScanEnd
    \/ ThreadRun
    \/ ThreadLoopTest
    \/ ThreadRunPending
    \/ ThreadScanEnd
    \/ ThreadSleepDone
    \/ StopFlag
    \/ StopJoin
    \/ StopClear
    \/ ProcessExit
    \/ SchedulerTick

SpecScheduler == InitScheduler /\ [][NextScheduler]_vars

\* ------------------------------------------ the canonical base of a symbol
\* SpotFuturesMonitor._extract_base_symbol: the four markers are deleted, a
\* symbol with a slash gives what stands before the first slash, any other
\* symbol loses the first of the quote suffixes it ends with.
ExtractMarkers == SubSeq(PerpMarkers, 1, 4)
ExtractSuffixes == <<"USDT", "BUSD", "USDC", "USD">>

extract_base_symbol(symbol0) ==
    LET symbol == RemoveEach(symbol0, ExtractMarkers)
        slashes == { i \in 1..Len(symbol) : symbol[i] = "/" }
        first == CHOOSE i \in slashes : \A j \in slashes : i <= j
    IN  IF slashes # {} THEN SubSeq(symbol, 1, first - 1)
        ELSE IF symbol # <<>> /\ \E q \in 1..Len(ExtractSuffixes) :
                                    Last(symbol) = ExtractSuffixes[q]
        THEN Strip(SubSeq(symbol, 1, Len(symbol) - 1))
        ELSE symbol

\* The symbols handed to the two functions: every sequence of at most
\* MaxSymbolLen of these pieces.
SymbolPieces == {"BTC", "USDT", "USDC", "/", ":", "-", "SWAP", "PERP"}
SymbolInputs == UNION { [1..n -> SymbolPieces] : n \in 0..MaxSymbolLen }

InitSymbols ==
    /\ entry = "symbols"
    /\ settings = DefaultSettings
    /\ now = 0
    /\ ticks = 0
    /\ ws = WsInitial
    /\ tasks = <<>>
    /\ analyzer = AnalyzerInitial
    /\ sdf = SfInitial
    /\ perp = PerpInitial
    /\ monitor = MonitorInitial
    /\ feed = <<>>
    /\ obs = Obs("init")
    /\ hist = HistInitial
    /\ \E symbol \in SymbolInputs : listing = Market(symbol, FALSE, TRUE)
    /\ sweep = SweepInitial
    /\ cross = CrossInitial
    /\ snapshot = <<>>
    /\ closer = CloserInitial
    /\ requests = RequestsInitial
    /\ adapters = AdaptersInitial
    /\ scheduler = SchedulerInitial

Others_symbols == <<entry, settings, now, ticks, ws, tasks, analyzer, sdf,
                    perp, monitor, feed, hist, listing, sweep, cross,
                    snapshot, closer, requests, adapters,
    scheduler>>

\* PerpWebSocketSubscriber._normalize_symbol on the symbol, and on its result.
NormalizeSymbol ==
    /\ entry = "symbols"
    /\ obs' = [Obs("normalize_symbol") EXCEPT !.detected =
                  << normalize_symbol(listing.symbol),
                     normalize_symbol(normalize_symbol(listing.symbol)) >>]
    /\ UNCHANGED Others_symbols

\* SpotFuturesMonitor._extract_base_symbol on the symbol, and on its result.
ExtractBaseSymbol ==
    /\ entry = "symbols"
    /\ obs' = [Obs("extract_base_symbol") EXCEPT !.detected =
                  << extract_base_symbol(listing.symbol),
                     extract_base_symbol(extract_base_symbol(listing.symbol)) >>]
    /\ UNCHANGED Others_symbols

NextSymbols == NormalizeSymbol \/ ExtractBaseSymbol

SpecSymbols == InitSymbols /\ [][NextSymbols]_vars

\* ------------------------------------------------------------ shutdown
\* Each entry's component is started, its stream runs without delivering a
\* candle, and stop() is called at any moment.  start() is called once.
StreamStep ==
    \/ \E i \in 1..Len(tasks) :
          \/ WsTaskStart(i)
          \/ WsEmpty(i)
          \/ WsNetworkError(i)
          \/ WsSleepDone(i)
    \/ SfInvalidBar
    \/ SfError
    \/ SfSleepDone
    \/ PerpEmpty
    \/ PerpError
    \/ PerpSleepDone

NextShutdown ==
    \/ closer.pc = "idle" /\ Start(TRUE)
    \/ SubscribeToOhlcv
    \/ SfStart
    \/ PerpSubscribe
    \/ StreamStep
    \/ StopCalled
    \/ CloseReturns
    \/ CloseTimesOut

\* A pending watch call eventually returns or raises and a sleep eventually
\* ends; the timer of wait_for eventually fires.  Nothing makes close()
\* return.
SpecShutdown ==
    /\ Init
    /\ [][NextShutdown]_vars
    /\ WF_vars(StreamStep)
    /\ WF_vars(CloseTimesOut)

\* ------------------------------------------------------ the polling sweep
\* The frames fetch_recent_data can return for a symbol: nothing, or
\* LOOKBACK_MINUTES bars, each quiet or a 3 % rise on six times the volume.
PollPayloads == { [open |-> 1000, close |-> 1000, volume |-> 100],
                  [open |-> 1000, close |-> 1030, volume |-> 600] }
SweepFrames ==
    { <<>> } \cup
    { [ k \in 1..settings.LOOKBACK_MINUTES |->
          PollBar(k, f[k].open, f[k].close, f[k].volume) ] :
        f \in [ 1..settings.LOOKBACK_MINUTES -> PollPayloads ] }

InitSweep ==
    /\ entry = "polling"
    /\ settings = DefaultSettings
    /\ now = 0
    /\ ticks = 0
    /\ ws = WsInitial
    /\ tasks = <<>>
    /\ analyzer = AnalyzerInitial
    /\ sdf = SfInitial
    /\ perp = PerpInitial
    /\ monitor = MonitorInitial
    /\ feed = <<>>
    /\ obs = Obs("init")
    /\ hist = HistInitial
    /\ listing \in Markets
    /\ sweep = SweepInitial
    /\ cross = CrossInitial
    /\ snapshot = <<>>
    /\ closer = CloserInitial
    /\ requests = RequestsInitial
    /\ adapters = AdaptersInitial
    /\ scheduler = SchedulerInitial

NextSweep ==
    \/ SweepStart
    \/ \E df \in SweepFrames : ScanMarkets(df)
    \/ SweepSleepDone
    \/ SweepShutdown

SpecSweep == InitSweep /\ [][NextSweep]_vars

\* ------------------------------------------------------------ the windows
\* The rolling window of (EXCHANGE, SYMBOL) in each of the three stores.
WsWindow == IF ws.data_buffers = <<>> THEN <<>> ELSE ws.data_buffers[1]
SfWindow == IF sdf.ohlcv_data = <<>> THEN <<>> ELSE sdf.ohlcv_data[1]
PerpWindow == IF perp.market_data = <<>> THEN <<>> ELSE perp.market_data[1]

\* ---------------------------------------------------------- get_market_data
\* The frame a detector pass works on.  A frame is either a copy, with rows
\* of its own, or shares its rows with the stored window it was taken from.
df_alias(df) == [ shared |-> TRUE, rows |-> df ]

\* DataFrame.copy: deep by default.
df_copy(df) == [ shared |-> FALSE, rows |-> df ]

\* The stored window of the running entry's one symbol.
StoredWindow == IF entry = "spot_futures" THEN SfWindow ELSE PerpWindow

\* What a detector reads in a frame.
FrameRows(fr) == IF fr.shared THEN StoredWindow ELSE fr.rows

Others_snapshot == <<entry, settings, now, ticks, ws, tasks, analyzer, sdf, perp,
                     monitor, feed, hist, listing, sweep, cross, closer,
                     requests, adapters,
    scheduler>>

\* SubscriptionDataFetcher.get_market_data: an empty frame is left out, any
\* other is copied; the stored frames hold no NaN to fill.
SfGetMarketData ==
    /\ entry = "spot_futures"
    /\ sdf.pc # "none"
    /\ snapshot' = IF SfWindow = <<>> THEN <<>> ELSE << df_copy(SfWindow) >>
    /\ obs' = Obs("get_market_data")
    /\ UNCHANGED Others_snapshot

\* PerpWebSocketSubscriber.get_market_data, under data_lock: the frame is
\* copied, rows with close <= 0 are dropped, and a frame left empty is
\* left out.
PerpGetMarketData ==
    /\ entry = "perp_ws"
    /\ perp.pc # "none"
    /\ LET Positive(row) == row.close > 0
           df == SelectSeq(PerpWindow, Positive)
       IN  snapshot' = IF df = <<>> THEN <<>> ELSE << df_copy(df) >>
    /\ obs' = Obs("get_market_data")
    /\ UNCHANGED Others_snapshot

\* The candles a stream can deliver that pass the handlers' validation:
\* numeric and not null, a close of 0 included.
SnapBars == { Bar(ts, close, 100) : ts \in {1, 2}, close \in {0, 1000, 1030} }

InitSnapshot == Init /\ entry \in {"spot_futures", "perp_ws"}

NextSnapshot ==
    \/ SfStart
    \/ \E candle \in SnapBars : SfBar(candle)
    \/ SfGetMarketData
    \/ PerpSubscribe
    \/ \E new_row \in SnapBars : PerpBar(new_row)
    \/ PerpGetMarketData

SpecSnapshot == InitSnapshot /\ [][NextSnapshot]_vars

\* The invalid set the running entry keeps for EXCHANGE; only
\* WebSocketDataSubscriber has one.
InvalidSet == IF entry = "event_driven" THEN ws.invalid_symbols ELSE {}

\* ------------------------------------------------------------- properties

\* C1: every emitted alert comes strictly more than the cooldown TTL of its
\* kind after the previous emission for the same key, the boundary where the
\* elapsed time equals the TTL included.
C1_CooldownStrictlyElapsed ==
    obs.alert # <<>> =>
        \/ obs.alert[1].prev = None
        \/ obs.alert[1].at - obs.alert[1].prev > cooldown_seconds

StrictlyAscending(w) ==
    \A k \in 1..(Len(w) - 1) : w[k].timestamp < w[k + 1].timestamp

\* C2: in every store the window has strictly ascending timestamps, hence
\* at most one bar per timestamp, whatever bars the stream delivered.
C2_WindowsStrictlyAscending ==
    /\ StrictlyAscending(WsWindow)
    /\ StrictlyAscending(SfWindow)
    /\ StrictlyAscending(PerpWindow)

\* The row that left w when the candle went in is no younger than any row
\* that stayed in w2.
EvictedIsOldest(w, w2) ==
    \A k \in 1..Len(w2) : w[1].timestamp <= w2[k].timestamp

C3_StepKeepsCap ==
    /\ Len(WsWindow') <= settings.buffer_size
    /\ Len(SfWindow') <= settings.LOOKBACK_MINUTES
    /\ Len(PerpWindow') <= WindowCap
    /\ obs'.evicted =>
          /\ obs'.op = "bar" => EvictedIsOldest(WsWindow, WsWindow')
          /\ obs'.op = "sf_bar" => EvictedIsOldest(SfWindow, SfWindow')
          /\ obs'.op = "perp_bar" => EvictedIsOldest(PerpWindow, PerpWindow')

\* C3: after every step no window of the three stores holds more bars than
\* its cap, and when an append goes beyond the cap the bar that is evicted
\* is the oldest one: no bar that stays has an earlier timestamp.
C3_CapAndOldestEvicted == [][C3_StepKeepsCap]_vars

C4_StepRecordsAgain ==
    (obs.candle # <<>> /\ obs'.candle = obs.candle) =>
        /\ WsWindow' = WsWindow
        /\ SfWindow' = SfWindow
        /\ PerpWindow' = PerpWindow

\* C4: a step that records the very candle the previous step recorded, on
\* the same stream, leaves the window as the previous step left it, full
\* windows and out-of-order candles included.
C4_RecordTwiceIdempotent == [][C4_StepRecordsAgain]_vars

\* The same candle was recorded twice in a row into a full buffer whose
\* rows are out of order.
C4_RecordedTwice ==
    /\ obs.op = "bar"
    /\ obs.again
    /\ Len(WsWindow) = settings.buffer_size
    /\ ~StrictlyAscending(WsWindow)

\* The messages of a permanent symbol failure.
PermanentSymbolMessages == {
    <<"invalid", "symbol">>,
    <<"symbol", "not", "found">>,
    <<"market", "does", "not", "exist">>,
    <<"invalid", "symbol", "status">> }

C5_StepPermanentError ==
    (obs'.op = "base_error" /\ obs'.msg \in PermanentSymbolMessages) =>
        /\ SYMBOL \in ws'.invalid_symbols
        /\ KEY \notin ws'.active_subscriptions
        /\ \E i \in 1..Len(tasks) :
              /\ tasks[i].pc = "watch"
              /\ tasks' = RemoveAt(tasks, i)

\* C5: a stream error that reports a permanent symbol failure puts the
\* symbol into the invalid set, takes the key out of the active
\* subscriptions and ends the task at once: the task is gone, not asleep
\* before a retry.
C5_PermanentErrorExits == [][C5_StepPermanentError]_vars

\* A stream failed with "symbol not found" and its task is gone.
C5_PermanentErrorSeen ==
    /\ obs.op = "base_error"
    /\ obs.msg = <<"symbol", "not", "found">>
    /\ obs.exit = "permanent"
    /\ SYMBOL \in ws.invalid_symbols
    /\ KEY \notin ws.active_subscriptions
    /\ tasks = <<>>

UnknownMessages == { <<"unknown", "symbol">>, <<"unknown", "channel">> }

\* C6: an error reporting an unknown symbol or an unknown channel is
\* permanent: the task exits on the first one and the symbol is in the
\* invalid set.
C6_UnknownIsPermanent ==
    (obs.op = "base_error" /\ obs.msg \in UnknownMessages) =>
        /\ obs.exit = "permanent"
        /\ SYMBOL \in ws.invalid_symbols

C7_StepNoResubscription ==
    SYMBOL \in hist.ever_invalid =>
        ~(KEY \notin ws.active_subscriptions /\ KEY \in ws'.active_subscriptions)

\* C7: a symbol that has once been put into the invalid set is never
\* subscribed again, whatever its owner calls afterwards.
C7_InvalidNeverResubscribed == [][C7_StepNoResubscription]_vars

\* C8: a task that gives up after more than MAX_RETRIES consecutive
\* recoverable errors leaves its symbol marked invalid.
C8_RetryBudgetMarksInvalid ==
    obs.exit = "max_retries" => SYMBOL \in InvalidSet

\* Bars of scenario S1 delivered so far.
S1Delivered == Len(S1Feed(6)) - Len(feed)

\* C9: in scenario S1 nothing is sent before the sixth bar; the sixth bar
\* sends one volatility alert with price change 3.00 and volume ratio 6.00;
\* and no alert follows an earlier one by less than 3600 s.
C9_ScenarioS1 ==
    /\ S1Delivered < 6 => (hist.last_emit = None /\ obs.alert = <<>>)
    /\ (S1Delivered >= 6 /\ \A i \in 1..Len(tasks) : tasks[i].pc # "percentile")
          => hist.last_emit # None
    /\ obs.alert # <<>> =>
          IF obs.alert[1].prev = None
          THEN /\ S1Delivered = 6
               /\ obs.alert[1].price_change_percent = 300
               /\ obs.alert[1].volume_ratio = 600
          ELSE obs.alert[1].at - obs.alert[1].prev >= cooldown_seconds

\* The spike candle came a second time, later than the alert and less than
\* 3600 s after it, and nothing was sent.
C9_SecondBarSuppressed ==
    /\ feed = <<>>
    /\ obs.op = "bar"
    /\ obs.candle = << Bar(6, 1030, 600) >>
    /\ obs.alert = <<>>
    /\ hist.last_emit # None
    /\ now - hist.last_emit < cooldown_seconds
    /\ now > hist.last_emit

\* The rule of the basis alert: the basis is defined, its size reaches the
\* threshold and its sign is the one the filter asks for.
BasisExpected(m) ==
    /\ m.spot_df # <<>>
    /\ m.future_df # <<>>
    /\ m.spot_df[1] > 0
    /\ Abs(m.future_df[1] - m.spot_df[1]) * 1000 >= m.threshold * m.spot_df[1]
    /\ \/ m.basis_direction = "both"
       \/ m.basis_direction = "premium" /\ m.future_df[1] > m.spot_df[1]
       \/ m.basis_direction = "discount" /\ m.future_df[1] < m.spot_df[1]

\* C10: a pass of the basis detector returns an alert exactly when
\* |basis| >= threshold and the direction matches the filter, premium being
\* basis > 0 and discount basis < 0; spot 100 / future 99.8 at threshold
\* 0.1 gives nothing under 'premium' and one alert of -0.2 under 'both'.
C10_BasisEmitsExactlyWhen ==
    obs.op = "monitor_pass" =>
        /\ (obs.detected # <<>>) <=> BasisExpected(monitor)
        /\ (monitor.spot_df = <<1000>> /\ monitor.future_df = <<998>>
                /\ monitor.threshold = 1) =>
              /\ monitor.basis_direction = "premium" => obs.detected = <<>>
              /\ monitor.basis_direction = "both" =>
                    /\ Len(obs.detected) = 1
                    /\ obs.detected[1].price_difference_percent = -2000

\* C11: no alert is ever emitted for a dated future, a market whose symbol
\* matches one of the date patterns, whatever its bars are.
C11_NoAlertForDatedFuture ==
    obs.alert # <<>> => ~is_delivery(listing.symbol)

\* C12: the volatility detector never emits an alert for a pair of two
\* stablecoins.
C12_NoVolatilityAlertForStablecoinPair ==
    (obs.alert # <<>> /\ obs.alert[1].kind = "volatility") =>
        ~is_stablecoin_pair(listing.symbol)

\* settings.EXCHANGE_VOLUME_THRESHOLDS, in millions; a venue without an
\* entry has no floor.
EXCHANGE_VOLUME_THRESHOLDS(venue) ==
    IF venue = "binance" THEN 20 ELSE IF venue = "gate" THEN 5 ELSE 0

\* C13: the cross-venue detector emits nothing for a venue pair of which
\* either side's volume is below the venue's configured floor (Binance 20
\* million, Gate 5 million); a Gate volume of 4 million yields no alert.
C13_VolumeFloorsFromConfiguration ==
    \A q \in 1..Len(obs.detected) :
        obs.detected[q].kind = "cross" =>
            /\ obs.detected[q].volume1 >=
                   EXCHANGE_VOLUME_THRESHOLDS(obs.detected[q].exchange1)
            /\ obs.detected[q].volume2 >=
                   EXCHANGE_VOLUME_THRESHOLDS(obs.detected[q].exchange2)

\* C14: every base the cross-venue detector emits an alert for is listed on
\* every configured venue that has data; with an empty intersection there
\* is no alert.
C14_AlertedBaseOnEveryVenue ==
    \A q \in 1..Len(obs.detected) :
        obs.detected[q].kind = "cross" =>
            \A v \in 1..Len(cross.exchanges) :
                CrossHasData(cross.market_data, cross.exchanges[v]) =>
                    CrossFrameOf(cross.market_data, cross.exchanges[v],
                                 obs.detected[q].base_symbol) # <<>>

\* C15: the cross-venue detector emits no alert for two equal prices,
\* whatever the threshold.
C15_NoAlertOnEqualPrices ==
    \A q \in 1..Len(obs.detected) :
        obs.detected[q].kind = "cross" =>
            obs.detected[q].price1 # obs.detected[q].price2

\* C16: every alert that reaches the notifier has passed the cooldown gate:
\* no alert is sent for a key whose previous alert was sent less than the
\* cooldown TTL before.
C16_EveryAlertPassedCooldownGate ==
    obs.alert # <<>> =>
        \/ obs.alert[1].prev = None
        \/ obs.alert[1].at - obs.alert[1].prev >= cooldown_seconds

\* C17: shutdown always completes: once stop() of a data component has been
\* called it returns, even if the adapter's close() never does.
C17_StopAlwaysReturns == (closer.pc = "closing") ~> (closer.pc = "returned")

\* No stream task of the running entry is in or before its loop.
StreamTasksDone ==
    /\ tasks = <<>>
    /\ sdf.pc \in {"none", "done"}
    /\ perp.pc \in {"none", "done"}

\* A step that starts a stream task.
StartsStreamTask ==
    \/ Len(tasks') > Len(tasks)
    \/ sdf.pc = "none" /\ sdf'.pc # "none"
    \/ perp.pc = "none" /\ perp'.pc # "none"

\* C18: after stop() every stream task eventually leaves its loop and ends,
\* and no stream task is started any more.
C18_StreamsEndAfterStop ==
    /\ (closer.pc # "idle") ~> StreamTasksDone
    /\ [][closer.pc # "idle" => ~StartsStreamTask]_vars

\* The rows of the frame of the pass in progress.
FrameRowsNow == IF snapshot = <<>> THEN <<>> ELSE FrameRows(snapshot[1])

C19_StepKeepsSnapshot ==
    /\ (snapshot # <<>> /\ snapshot' = snapshot) => FrameRowsNow' = FrameRowsNow
    /\ (obs'.op = "get_market_data" /\ entry = "spot_futures") =>
           FrameRowsNow' = SfWindow
    /\ \A k \in 1..Len(FrameRowsNow') :
           /\ FrameRowsNow'[k] \in SnapBars
           /\ obs'.op = "get_market_data" =>
                 \E j \in 1..Len(StoredWindow) : StoredWindow[j] = FrameRowsNow'[k]

\* C19: the frames get_market_data returns are a point-in-time copy of the
\* stored windows: a write that lands after the snapshot never changes the
\* frames of the pass in progress, and every row of a frame is a whole bar
\* as it was delivered.
C19_SnapshotIsPointInTimeCopy == [][C19_StepKeepsSnapshot]_vars

\* C19 witness: a candle was written after the snapshot and the stored
\* window differs from the frame of the pass.
C19_WriteAfterSnapshot ==
    /\ entry = "spot_futures"
    /\ snapshot # <<>>
    /\ obs.op = "sf_bar"
    /\ FrameRowsNow # SfWindow

\* C20: every bar of every frame a snapshot hands to a detector has a close
\* above 0.
C20_SnapshotClosesPositive ==
    \A k \in 1..Len(FrameRowsNow) : FrameRowsNow[k].close > 0

\* C21: an exception raised while the cross-venue detector processes one
\* base does not keep the other bases of the same pass from being evaluated:
\* every alert of a base that does not raise is in the result of the pass.
C21_OtherBasesStillEvaluated ==
    obs.op = "cross_pass" =>
        LET mapping == build_symbol_mapping(cross.market_data, cross.exchanges)
            raising == CrossRaisingBases(cross.market_data, mapping)
        IN  \A k \in (1..Len(CrossSymbols)) \ raising :
                LET alerts == CrossBaseAlerts(cross.market_data, mapping,
                                              cross.threshold, k)
                IN  \A q \in 1..Len(alerts) :
                        \E d \in 1..Len(obs.detected) :
                            obs.detected[d] = alerts[q]
\* The stream tasks that are inside their loop: awaiting the cursor, a
\* daily history or a back-off sleep.
RunningStreamTasks == { i \in 1..Len(tasks) : tasks[i].pc # "start" }

\* C22: at any time at most one running stream task exists for the
\* (venue, symbol, timeframe) of the model, under every interleaving of
\* subscribe_to_ohlcv, unsubscribe_from_ohlcv and pending cursor advances.
C22_OneRunningTaskPerKey == Cardinality(RunningStreamTasks) <= 1
\* C23: canonical-base normalization is idempotent: applying either
\* function to its own result gives that result again, whatever the symbol.
C23_NormalizationIdempotent ==
    obs.op \in {"normalize_symbol", "extract_base_symbol"} =>
        obs.detected[2] = obs.detected[1]
\* No anomaly has left on_new_kline: none sent, none waiting for its
\* daily history.
NoVolatilityAnomaly ==
    /\ hist.last_emit = None
    /\ obs.alert = <<>>
    /\ \A i \in 1..Len(tasks) : tasks[i].pending = <<>>

BarUpdateWithZeroThresholds ==
    /\ settings.MIN_PRICE_INCREASE_PERCENT = 0
    /\ settings.VOLUME_SPIKE_THRESHOLD = 0
    /\ obs'.op = "bar"
    /\ KEY \in ws.subscription_callbacks
    /\ ~InCooldown(analyzer.alert_cooldowns, now)
    /\ Len(WsWindow') >= 2

\* The step hands an anomaly to the notifier or to the daily-history fetch
\* that precedes the notification.
AnomalyLeaves ==
    \/ obs'.alert # <<>>
    \/ \E i \in 1..Len(tasks') : tasks'[i].pending # <<>>

\* The latest close of the window after the step is not below the close the
\* analyzer takes as reference.
NotBelowReference ==
    LET kl == sort_values(WsWindow')
    IN  Last(kl).close >= reference_price(kl, settings.LOOKBACK_MINUTES)

\* C25 as stated: with both thresholds 0, every bar update outside the
\* cooldown triggers a volatility alert, whatever the direction of the price
\* move.
C25_EveryUpdateAlerts ==
    [][BarUpdateWithZeroThresholds => AnomalyLeaves]_vars

\* C25, amended: with both thresholds 0, every bar update outside the
\* cooldown whose latest close is not below the reference close triggers a
\* volatility alert.
C25_EveryNonFallingUpdateAlerts ==
    [][(BarUpdateWithZeroThresholds /\ NotBelowReference) => AnomalyLeaves]_vars

\* An alert was sent for a flat price with both thresholds 0.
C25_FlatMoveAlerted ==
    /\ settings.MIN_PRICE_INCREASE_PERCENT = 0
    /\ settings.VOLUME_SPIKE_THRESHOLD = 0
    /\ obs.op = "bar"
    /\ Len(WsWindow) >= 2
    /\ obs.alert # <<>>
    /\ obs.alert[1].price_change_percent = 0
\* C26: the number of one-shot adapter requests in flight at the same time,
\* bulk candle fetches and daily-history fetches counted together, never
\* exceeds MAX_CONCURRENT_REQUESTS.
C26_RequestsInFlightBounded ==
    requests.bulk + requests.daily <= MAX_CONCURRENT_REQUESTS
\* C27: every back-off sleep a stream task performs after a transient
\* error lasts at most 30 seconds, for every MAX_RETRIES and
\* RETRY_DELAY_SECONDS and every number of consecutive failures.
C27_BackoffAtMostThirtySeconds ==
    /\ obs.sleep_s <= 30
    /\ sdf.sleep_s <= 30
    /\ perp.sleep_s <= 30
\* A cursor advance of a stream task returned and the task goes on.
SuccessfulAdvance ==
    /\ obs'.op \in {"empty", "bar"}
    /\ obs'.exit = ""
    /\ Len(tasks') = Len(tasks)

\* C28: in the WebSocket stream task every successful cursor advance puts
\* the retry counter back to 0, and the task gives up on its retry budget
\* only at a failure that finds the counter at MAX_RETRIES, that is after
\* more than MAX_RETRIES failures with no successful advance between them.
C28_SuccessResetsRetryCounter ==
    [][ /\ SuccessfulAdvance =>
            \E i \in 1..Len(tasks) :
                /\ tasks[i].pc = "watch"
                /\ tasks[i].retries = obs'.was
                /\ tasks'[i].retries = 0
                /\ \A j \in (1..Len(tasks)) \ {i} : tasks'[j] = tasks[j]
        /\ obs'.exit = "max_retries" =>
            /\ obs'.was = settings.MAX_RETRIES
            /\ \E i \in 1..Len(tasks) : tasks[i].retries = settings.MAX_RETRIES
      ]_vars

\* A task that had failed MAX_RETRIES times in a row advanced its cursor and
\* goes on with its counter at 0.
C28_CounterResetAfterFullBudget ==
    /\ obs.op = "empty"
    /\ obs.exit = ""
    /\ obs.was = settings.MAX_RETRIES
    /\ tasks # <<>>
    /\ \A i \in 1..Len(tasks) : tasks[i].retries = 0 /\ tasks[i].pc = "watch"
\* C29: a delivered bar that does not have exactly 6 fields, or has a
\* negative field, is rejected: it is never stored in the window and it does
\* not terminate the stream task.
C29_MalformedBarsRejected ==
    /\ \A k \in 1..Len(WsWindow) :
          WsWindow[k].close >= 0 /\ WsWindow[k].volume >= 0
    /\ obs.op = "short_bar" => obs.exit = ""

\* The step handed an alert to the notifier and the notifier returned False
\* or raised.
NotificationFailed == obs'.alert # <<>> /\ obs'.notifier \in {"returned_false", "raised"}

\* The cooldown entry of the running entry's key, None when there is none.
CooldownEntry(an, m) ==
    IF entry = "event_driven" THEN an.alert_cooldowns ELSE m.last_alert_time

CooldownTTL == IF entry = "event_driven" THEN cooldown_seconds ELSE alert_cooldown

\* C30: when the notifier returns failure or raises, the stream task or the
\* monitor pass goes on, the cooldown entry of the alert's key is the time
\* of the failed send, and while an entry is younger than its TTL no step
\* hands the key to the notifier again, so a failed alert is not sent a
\* second time.
C30_FailedNotificationKeepsCooldown ==
    [][ /\ NotificationFailed =>
              /\ CooldownEntry(analyzer', monitor') = now
              /\ obs'.exit = ""
              /\ WsLoopCondition(ws') => Len(tasks') = Len(tasks)
        /\ ( /\ CooldownEntry(analyzer, monitor) # None
             /\ now - CooldownEntry(analyzer, monitor) < CooldownTTL )
              => obs'.alert = <<>>
      ]_vars

\* A stream task handed an anomaly to a notifier that raised: the task
\* awaits its next candle and the key's cooldown entry is in place.
C30_NotifierRaisedTaskGoesOn ==
    /\ entry = "event_driven"
    /\ obs.alert # <<>>
    /\ obs.notifier = "raised"
    /\ analyzer.alert_cooldowns = now
    /\ now > 0
    /\ \E i \in 1..Len(tasks) : tasks[i].pc = "watch"

\* C31: after each periodic maintenance pass no cooldown entry older than
\* its TTL remains and no daily-history cache entry past its 6-hour expiry
\* remains.
C31_MaintenanceLeavesNothingExpired ==
    obs.op = "maintenance" =>
        /\ analyzer.alert_cooldowns # None =>
               now - analyzer.alert_cooldowns <= cooldown_seconds
        /\ requests.cache_expiry # None => now < requests.cache_expiry

\* C32: fetch_ohlcv retries a transient error at most MAX_RETRIES times,
\* makes at most MAX_RETRIES + 1 adapter calls before it returns, and marks
\* the symbol invalid when it gives up on the retry budget.
C32_RetriesBoundedThenInvalid ==
    /\ requests.call.calls <= settings.MAX_RETRIES + 1
    /\ obs.sleep_s > 0 => requests.call.retries <= settings.MAX_RETRIES
    /\ obs.exit = "max_retries" => SYMBOL \in requests.invalid_symbols

\* The close L bars before the latest bar of kl when kl holds more than L
\* bars, the oldest close otherwise.
CloseLookbackBarsBefore(kl, L) ==
    IF Len(kl) > L THEN kl[Len(kl) - L].close ELSE kl[1].close

\* C33: the price change of a volatility alert is computed against the close
\* L bars before the latest bar when the window holds more than L bars, and
\* against the oldest close of the window otherwise.
C33_ReferenceIsLookbackBarsBefore ==
    (obs.op = "bar" /\ obs.alert # <<>>) =>
        LET kl == sort_values(WsWindow)
            ref == CloseLookbackBarsBefore(kl, settings.LOOKBACK_MINUTES)
        IN  obs.alert[1].price_change_percent
                = ((Last(kl).close - ref) * 10000) \div ref

\* The store holds a spread between two venues that the detector reports.
QualifyingSpreadInStore ==
    calculate_price_differences(cross.market_data, cross.exchanges,
                                cross.threshold).alerts # <<>>

\* C34: in the WebSocket cross-venue monitor, whenever the store holds a
\* qualifying spread between two venues, a scan pass eventually hands the
\* detector's alerts for it to the notifier.
C34_QualifyingSpreadEventuallyNotified ==
    QualifyingSpreadInStore ~> (obs.op = "scan_pass" /\ obs.alert # <<>>)

\* C35: a stream task that has left its loop has its key out of the active
\* subscriptions: in each subscriber the keys of the active subscriptions
\* are keys of live stream tasks.
C35_ExitedStreamNotActive ==
    /\ perp.pc = "done" => SYMBOL \notin perp.active_subscriptions
    /\ sdf.pc = "done" => SUB_KEY \notin sdf.subscriptions
    /\ (entry = "event_driven" /\ KEY \in ws.active_subscriptions)
          => Len(tasks) >= 1

\* C36: when shutdown has completed, close() has been called on every
\* adapter instance the run created.
C36_EveryAdapterClosed ==
    adapters.pc = "stopped" =>
        \A instance \in 1..adapters.created : instance \in adapters.closed

\* C37: once stop() has returned after start(), the scheduler's running
\* flag is False (and the scheduler thread, which ends only when it reads
\* the flag as False, can end).
C37_StopReturnedFlagDown ==
    scheduler.caller = "stopped" => ~scheduler.running

\* C38: at most one market scan is in progress at any time: the initial
\* scan on the calling thread and a scan on the scheduler thread are never
\* in progress together.
C38_AtMostOneScan ==
    Cardinality(scheduler.scans) <= 1

\* C39: a maintenance pass removes a cooldown entry only when the cooldown
\* check would no longer suppress its key, and however the passes are
\* interleaved with the candle updates no alert of a key comes less than
\* cooldown_seconds after the previous alert of that key.
C39_PurgeNeverReenablesEarly ==
    [][ entry = "event_driven" =>
          /\ ( /\ obs'.op = "maintenance"
               /\ analyzer.alert_cooldowns # None
               /\ analyzer'.alert_cooldowns = None )
                => ~InCooldown(analyzer.alert_cooldowns, now)
          /\ ( /\ obs'.alert # <<>>
               /\ obs'.alert[1].prev # None )
                => obs'.alert[1].at - obs'.alert[1].prev >= cooldown_seconds
      ]_vars

\* A maintenance pass has just removed the cooldown entry an earlier alert
\* of the key had left.
C39_EntryPurgedAfterAlert ==
    /\ entry = "event_driven"
    /\ obs.op = "maintenance"
    /\ hist.last_emit # None
    /\ analyzer.alert_cooldowns = None
    /\ now - hist.last_emit > cooldown_seconds

====
